---- MODULE Spec2Model ----
(***************************************************************************)
(* Model of rust-src/curve_arithmetic/src/bls12_381_g2hash.rs:             *)
(* hash_to_curve_g2 and the functions it calls, one call per behaviour.    *)
(*                                                                         *)
(* The code is translated statement by statement.  The field and the group *)
(* come from the external crates ff / pairing / sha2; they are modelled by *)
(* what they compute, over a scaled instance of the same construction:     *)
(*   - Fq is the prime field of FqModulus (17 bits instead of 381), with   *)
(*     FqModulus = 3 mod 4, so that Fq2 = Fq[i]/(i^2 + 1) as in the crate; *)
(*   - an FqRepr has ReprLimbs limbs of LimbBytes bytes (3 x 1 instead of  *)
(*     6 x 8) and a digest has HashLen bytes (2 instead of 32), keeping    *)
(*     2^(8*HashLen) < FqModulus < 2^(8*ReprLimbs*LimbBytes - 3);          *)
(*   - A' = 240 i, B' = 1012 (1 + i), Z = -(2 + i) and the curve           *)
(*     E : y^2 = x^3 + 4 (1 + i) are the source's; the tables K1..K4 hold  *)
(*     the same elements of Q(i) (304/9, -8/3, ...) reduced into Fq;       *)
(*   - E(Fq2) has order Cofactor * FrModulus with FrModulus prime, and     *)
(*     h_eff is a multiple of Cofactor that exceeds FrModulus, as          *)
(*     0xbc69f08f...aa95551 is for BLS12-381.                              *)
(* Bytes are 8 bits wide everywhere; u8 conversions keep their width.      *)
(***************************************************************************)
EXTENDS Integers, Sequences, FiniteSets, TLC

VARIABLES msg, dst,                       \* the arguments of the call
          pc, panic,                      \* position in the code, panic site
          dst_prime, hashed, b_0, b, i,   \* expand_message_xmd
          u0, u1, q0, q1, r, result,      \* hash_to_curve_g2
          call,                           \* which map_to_curve_g2 call runs
          sswu_locals,                    \* the locals of sswu
          iso_locals,                     \* the locals of iso_map
          from_locals,                    \* from_coordinates_unchecked
          ops                             \* field operations of this call

inVars == <<msg, dst>>

xmdVars == <<dst_prime, hashed, b_0, b, i>>

topVars == <<u0, u1, q0, q1, r, result>>

mapVars == <<call, sswu_locals, iso_locals, from_locals, ops>>

vars == <<inVars, pc, panic, xmdVars, topVars, mapVars>>

----------------------------------------------------------------------------
(* Bounds of the model: the inputs a call is checked on.                   *)

\* messages are all byte strings over MsgBytes of length 0..MaxMsgLen
MaxMsgLen == 2

\* domain separation tags have lengths 0..MaxShortDst and
\* U8Max - 1 .. U8Max + MaxDstExcess
MaxShortDst == 2

MaxDstExcess == 2

\* the largest of the small bytes of a block given to hash_to_field_fq2
MaxBlockByte == 2

\* the largest component of a field element given to map_to_curve_g2
MaxU == 3

----------------------------------------------------------------------------
(* Option<T>: None or Some(v), as returned by the fallible library calls.  *)

None == << >>

Some(v) == << v >>

IsSome(o) == Len(o) = 1

Unwrap(o) == o[1]

----------------------------------------------------------------------------
(* Bytes.                                                                  *)

\* u8::MAX, the largest value dst.len().try_into() accepts
U8Max == 255

\* the conversion `dst.len() as u8`, which keeps the low eight bits
TryIntoU8Wrapping(n) == Some(n % (U8Max + 1))

\* usize -> u8 conversion of dst.len(): Err above u8::MAX
TryIntoU8(n) == IF n <= U8Max THEN Some(n) ELSE None

RECURSIVE XorBits(_, _, _)
XorBits(x, y, bits) ==
    IF bits = 0 THEN 0
    ELSE ((x + y) % 2) + 2 * XorBits(x \div 2, y \div 2, bits - 1)

\* x ^ y on u8
XorU8(x, y) == XorBits(x, y, 8)

\* b_0.iter().zip(prev.iter()).map(|(x, y)| x ^ y).collect()
StrXor(s, t) ==
    LET n == IF Len(s) <= Len(t) THEN Len(s) ELSE Len(t)
    IN  [k \in 1 .. n |-> XorU8(s[k], t[k])]

Zeros(n) == [k \in 1 .. n |-> 0]

----------------------------------------------------------------------------
(* Sha256 (crate sha2): a hasher is the byte string fed to it by update;   *)
(* finalize returns HashLen bytes that depend on every byte fed.           *)

\* output size of the hash in bytes ([u8; 32] in the source)
HashLen == 2

\* input block size of the hash in bytes: z_pad = I2OSP(0, 64)
ZPadLen == 64

\* number of blocks expand_message_xmd returns ([[u8; 32]; 8])
NumBlocks == 8

\* the state after absorbing input[lo .. hi] into state s, byte by byte in
\* order (evaluated by halves, the first half before the second, to keep
\* the evaluation shallow)
RECURSIVE Sha256Absorb(_, _, _, _)
Sha256Absorb(input, lo, hi, s) ==
    IF lo > hi THEN s
    ELSE IF lo = hi
         THEN (s * 257 + input[lo] + 1) % 65521
         ELSE LET mid == (lo + hi) \div 2
                  first == Sha256Absorb(input, lo, mid, s)
              IN  IF first >= 0
                  THEN Sha256Absorb(input, mid + 1, hi, first)
                  ELSE first

\* big-endian bytes of n, width bytes wide
RECURSIVE ToBeBytes(_, _)
ToBeBytes(n, width) ==
    IF width = 0 THEN << >>
    ELSE Append(ToBeBytes(n \div 256, width - 1), n % 256)

\* Sha256::new(), update(input), finalize()
Sha256(input) ==
    ToBeBytes(Sha256Absorb(input, 1, Len(input), Len(input) + 1), HashLen)

----------------------------------------------------------------------------
(* Fq (crate pairing, bls12_381::Fq): the integers modulo FqModulus.       *)

\* the field size q named at lines 681-682, scaled
FqModulus == 66103

\* bytes per limb of an FqRepr (a u64 in the source: chunks(8) at line 208)
LimbBytes == 1

\* limbs per FqRepr ([0u64; 6] at line 206)
ReprLimbs == 3

\* limbs a digest fills: HashLen / LimbBytes (4 of the 6 in the source)
BlockLimbs == HashLen \div LimbBytes

RECURSIVE Pow2(_)
Pow2(n) == IF n = 0 THEN 1 ELSE 2 * Pow2(n - 1)

LimbModulus == Pow2(8 * LimbBytes)

AddFq(x, y) == (x + y) % FqModulus

SubFq(x, y) == (x - y + FqModulus) % FqModulus

NegFq(x) == (FqModulus - x) % FqModulus

\* x * y mod q, y taken in two pieces so that no product exceeds 31 bits
MulFq(x, y) ==
    (((x * (y \div 256)) % FqModulus) * 256 + x * (y % 256)) % FqModulus

\* x^e by squaring (the half power is evaluated before it is squared, to keep
\* the evaluation shallow)
RECURSIVE PowFq(_, _)
PowFq(x, e) ==
    IF e = 0 THEN 1
    ELSE LET h == PowFq(x, e \div 2)
         IN  IF h < 0 THEN h
             ELSE IF e % 2 = 1 THEN MulFq(MulFq(h, h), x) ELSE MulFq(h, h)

\* Fq::inverse: None for zero
InverseFq(x) == IF x = 0 THEN None ELSE Some(PowFq(x, FqModulus - 2))

\* the integer an FqRepr denotes: limbs least significant first
RECURSIVE ReprValue(_)
ReprValue(limbs) ==
    IF limbs = << >> THEN 0
    ELSE Head(limbs) + LimbModulus * ReprValue(Tail(limbs))

\* Fq::from_repr: Err(NotInField) unless the integer is below the modulus
FqFromRepr(limbs) ==
    IF ReprValue(limbs) < FqModulus THEN Some(ReprValue(limbs)) ELSE None

\* Fq::into_repr: the canonical integer as limbs, least significant first
RECURSIVE ToLimbs(_, _)
ToLimbs(n, count) ==
    IF count = 0 THEN << >>
    ELSE <<n % LimbModulus>> \o ToLimbs(n \div LimbModulus, count - 1)

FqIntoRepr(x) == ToLimbs(x, ReprLimbs)

\* FqRepr::from(n) for a small n
FqReprFrom(n) == ToLimbs(n, ReprLimbs)

----------------------------------------------------------------------------
(* Fq2 (crate pairing, bls12_381::Fq2): c0 + c1 i with i^2 = -1, as the    *)
(* pair <<c0, c1>>.                                                        *)

Fq2(c0, c1) == <<c0, c1>>

Fq2Zero == Fq2(0, 0)

Fq2One == Fq2(1, 0)

IsZero(x) == x = Fq2Zero

Add(x, y) == Fq2(AddFq(x[1], y[1]), AddFq(x[2], y[2]))

Sub(x, y) == Fq2(SubFq(x[1], y[1]), SubFq(x[2], y[2]))

Negate(x) == Fq2(NegFq(x[1]), NegFq(x[2]))

Mul(x, y) ==
    Fq2(SubFq(MulFq(x[1], y[1]), MulFq(x[2], y[2])),
        AddFq(MulFq(x[1], y[2]), MulFq(x[2], y[1])))

Square(x) == Mul(x, x)

\* frobenius_map(1): conjugation
Frobenius(x) == Fq2(x[1], NegFq(x[2]))

\* x^e by squaring (the half power is evaluated before it is squared)
RECURSIVE Pow(_, _)
Pow(x, e) ==
    IF e = 0 THEN Fq2One
    ELSE LET h == Pow(x, e \div 2)
         IN  IF Len(h) # 2 THEN h
             ELSE IF e % 2 = 1 THEN Mul(Square(h), x) ELSE Square(h)

\* Option::map
MapScale(x, t) ==
    IF IsSome(t)
    THEN Some(Fq2(MulFq(x[1], Unwrap(t)), NegFq(MulFq(x[2], Unwrap(t)))))
    ELSE None

\* Fq2::inverse: (c0 - c1 i) / (c0^2 + c1^2), None for zero
Inverse(x) == MapScale(x, InverseFq(AddFq(MulFq(x[1], x[1]), MulFq(x[2], x[2]))))

\* the end of Fq2::sqrt, given a1 = x^((q - 3) / 4) and alpha = a1^2 x
SqrtFrom(x, a1, alpha) ==
    IF Mul(Frobenius(alpha), alpha) = Fq2(NegFq(1), 0) THEN None
    ELSE IF alpha = Fq2(NegFq(1), 0) THEN Some(Mul(Mul(a1, x), Fq2(0, 1)))
    ELSE Some(Mul(Pow(Add(alpha, Fq2One), (FqModulus - 1) \div 2), Mul(a1, x)))

SqrtWith(x, a1) == SqrtFrom(x, a1, Mul(Square(a1), x))

\* Fq2::sqrt, Algorithm 9 of eprint 2012/685 (q = 3 mod 4): None for a
\* non-square
Sqrt(x) ==
    IF IsZero(x) THEN Some(Fq2Zero)
    ELSE SqrtWith(x, Pow(x, (FqModulus - 3) \div 4))

\* Fq2 { c0, c1 } of two fallible results: None when an unwrap() or an
\* expect() panics
Fq2Of(c0, c1) ==
    IF IsSome(c0) /\ IsSome(c1) THEN Some(Fq2(Unwrap(c0), Unwrap(c1))) ELSE None

\* the pair (u0, u1): None when either panicked
Fq2Of2(a0, a1) ==
    IF IsSome(a0) /\ IsSome(a1) THEN Some(<< Unwrap(a0), Unwrap(a1) >>) ELSE None

----------------------------------------------------------------------------
(* hash_to_field_fq2 and fq_from_bytes, lines 189-224.                     *)

\* bytes.chunks(n)
RECURSIVE Chunks(_, _)
Chunks(bytes, n) ==
    IF Len(bytes) = 0 THEN << >>
    ELSE IF Len(bytes) <= n THEN << bytes >>
    ELSE << SubSeq(bytes, 1, n) >> \o Chunks(SubSeq(bytes, n + 1, Len(bytes)), n)

\* .rev()
Rev(s) == [k \in 1 .. Len(s) |-> s[Len(s) + 1 - k]]

\* u64::from_be_bytes
RECURSIVE FromBeBytes(_)
FromBeBytes(bytes) ==
    IF Len(bytes) = 0 THEN 0
    ELSE FromBeBytes(SubSeq(bytes, 1, Len(bytes) - 1)) * 256 + bytes[Len(bytes)]

\* the digits zipped with the chunks in their order in the input: the first
\* chunk in the least significant digit
digits_unreversed(bytes, limb_bytes, limbs) ==
    [k \in 1 .. limbs |->
        IF k <= Len(Chunks(bytes, limb_bytes))
        THEN FromBeBytes(Chunks(bytes, limb_bytes)[k]) ELSE 0]

\* lines 206-210: the digits ([0u64; 6]) zipped with bytes.chunks(8).rev();
\* the digits no chunk reaches stay 0
digits_from_be_bytes(bytes, limb_bytes, limbs) ==
    [k \in 1 .. limbs |->
        IF k <= Len(Chunks(bytes, limb_bytes))
        THEN FromBeBytes(Rev(Chunks(bytes, limb_bytes))[k]) ELSE 0]

\* lines 205-213
le_u64s_from_be_bytes(bytes) ==
    FqFromRepr(digits_from_be_bytes(bytes, LimbBytes, ReprLimbs))

\* the same digit set to 2: a power of two beyond the modulus
two_to_257_fqrepr == [k \in 1 .. ReprLimbs |-> IF k = BlockLimbs + 1 THEN 2 ELSE 0]

\* line 215: [0u64, 0, 0, 0, 1, 0], the digit after those a digest fills
two_to_256_fqrepr == [k \in 1 .. ReprLimbs |-> IF k = BlockLimbs + 1 THEN 1 ELSE 0]

\* lines 204-224; None when one of the three expect() calls panics
fq_from_bytes(left_bytes, right_bytes) ==
    LET two_to_256_fq == FqFromRepr(two_to_256_fqrepr)
        left_fq == le_u64s_from_be_bytes(left_bytes)
        right_fq == le_u64s_from_be_bytes(right_bytes)
    IN  IF IsSome(two_to_256_fq) /\ IsSome(left_fq) /\ IsSome(right_fq)
        THEN Some(AddFq(MulFq(Unwrap(left_fq), Unwrap(two_to_256_fq)),
                        Unwrap(right_fq)))
        ELSE None

\* the pairs with their halves exchanged: fq_from_bytes(&b[1], &b[0]), ...
FieldElementsSwapped(blocks) ==
    Fq2Of2(Fq2Of(fq_from_bytes(blocks[2], blocks[1]), fq_from_bytes(blocks[4], blocks[3])),
           Fq2Of(fq_from_bytes(blocks[6], blocks[5]), fq_from_bytes(blocks[8], blocks[7])))

\* lines 191-199, given the blocks of expand_message_xmd: Some(<<u0, u1>>),
\* or None when fq_from_bytes panics
FieldElements(blocks) ==
    Fq2Of2(Fq2Of(fq_from_bytes(blocks[1], blocks[2]), fq_from_bytes(blocks[3], blocks[4])),
           Fq2Of(fq_from_bytes(blocks[5], blocks[6]), fq_from_bytes(blocks[7], blocks[8])))

----------------------------------------------------------------------------
(* sswu and sgn0, lines 42-143.                                            *)

\* line 45: A' = 240 i
SswuA == 240

\* lines 48-49: B' = 1012 (1 + i)
SswuB == 1012

\* lines 52-55: Z = -(2 + i)
SswuZ0 == 2

SswuZ1 == 1

\* lines 43-46
sswu_a == Fq2Of(Some(0), FqFromRepr(FqReprFrom(SswuA)))

\* lines 47-50
sswu_b == Fq2Of(FqFromRepr(FqReprFrom(SswuB)), FqFromRepr(FqReprFrom(SswuB)))

\* the same with 1 for 2 + i: Z = -1, a square of Fq2
sswu_z_square == Fq2Of(FqFromRepr(FqReprFrom(1)), Some(0))

\* lines 51-54, before z.negate()
sswu_z == Fq2Of(FqFromRepr(FqReprFrom(SswuZ0)), FqFromRepr(FqReprFrom(SswuZ1)))

\* the parity of c0 alone
sgn0_of_c0(x) == FqIntoRepr(x[1])[1] % 2

\* lines 138-143
sgn0(x) ==
    LET sign_0 == FqIntoRepr(x[1])[1] % 2
        zero_0 == IF x[1] = 0 THEN 1 ELSE 0
        sign_1 == FqIntoRepr(x[2])[1] % 2
        both == IF zero_0 = 1 /\ sign_1 = 1 THEN 1 ELSE 0
    IN  IF sign_0 = 1 \/ both = 1 THEN 1 ELSE 0

\* Option::unwrap_or
UnwrapOr(o, default) == IF IsSome(o) THEN Unwrap(o) ELSE default

\* one for zero
inv0_one(x) == UnwrapOr(Inverse(x), Fq2One)

\* lines 81-84: inv0, zero for zero
inv0(x) == UnwrapOr(Inverse(x), Fq2Zero)

----------------------------------------------------------------------------
(* iso_map, the tables K1..K4 and horner, lines 226-634.  A coefficient is *)
(* <<limbs of c0, limbs of c1>>, limbs least significant first.            *)

\* lines 282-381: 304/9 (1 + i), -8/3 i, 4/3 - 4/3 i, 1/9
K1 == << << <<168, 229, 0>>, <<168, 229, 0>> >>,
         << <<0, 0, 0>>, <<34, 172, 0>> >>,
         << <<38, 172, 0>>, <<17, 86, 0>> >>,
         << <<116, 143, 0>>, <<0, 0, 0>> >> >>

\* the same with 72 i for -72 i
K2_positive == << << <<0, 0, 0>>, <<72, 0, 0>> >>,
                  << <<12, 0, 0>>, <<43, 2, 1>> >>,
                  << <<1, 0, 0>>, <<0, 0, 0>> >> >>

\* lines 383-425: -72 i, 12 - 12 i, 1
K2 == << << <<0, 0, 0>>, <<239, 1, 1>> >>,
         << <<12, 0, 0>>, <<43, 2, 1>> >>,
         << <<1, 0, 0>>, <<0, 0, 0>> >> >>

\* lines 427-528: 752/27 (1 + i), 88/9 i, -2/3 + 2/3 i, -1/27
K3 == << << <<32, 153, 0>>, <<32, 153, 0>> >>,
         << <<0, 0, 0>>, <<144, 229, 0>> >>,
         << <<36, 172, 0>>, <<19, 86, 0>> >>,
         << <<65, 38, 0>>, <<0, 0, 0>> >> >>

\* lines 530-613: -432 (1 + i), -216 i, 18 - 18 i, 1
K4 == << << <<135, 0, 1>>, <<135, 0, 1>> >>,
         << <<0, 0, 0>>, <<95, 1, 1>> >>,
         << <<18, 0, 0>>, <<37, 2, 1>> >>,
         << <<1, 0, 0>>, <<0, 0, 0>> >> >>

\* number of powers of Z iso_map prepares ([Fq2; 15])
NumZPowers == 15

\* lines 616-622: None when a from_repr(..).unwrap() panics
fq2_from_u64s(u64s) == Fq2Of(FqFromRepr(u64s[1]), FqFromRepr(u64s[2]))

\* lines 627-632: the loop over coefficients.iter().rev().skip(1) zipped with
\* z_powers, from its k-th pair on; res is an Option
RECURSIVE horner_loop(_, _, _, _, _)
horner_loop(res, rest, z_powers, variable, k) ==
    IF k > Len(rest) \/ k > Len(z_powers) \/ ~IsSome(res) THEN res
    ELSE LET coeff == fq2_from_u64s(rest[k])
             next == IF IsSome(coeff)
                     THEN Some(Add(Mul(Unwrap(res), variable),
                                   Mul(Unwrap(coeff), z_powers[k])))
                     ELSE None
         IN  horner_loop(next, rest, z_powers, variable, k + 1)

\* the coefficients after the first taken in the order of the table, the
\* lowest one used as the leading one
horner_forward(coefficients, z_powers, variable) ==
    horner_loop(fq2_from_u64s(coefficients[1]), Tail(coefficients), z_powers, variable, 1)

\* lines 615-634
horner(coefficients, z_powers, variable) ==
    LET clen == Len(coefficients)
        res == fq2_from_u64s(coefficients[clen])
        rest == Tail(Rev(coefficients))
    IN  horner_loop(res, rest, z_powers, variable, 1)

\* lines 627-632: the trip count of the loop, the length of the zip of
\* coefficients.iter().rev().skip(1) with z_powers.iter()
horner_trips(coefficients, z_powers) ==
    IF Len(coefficients) - 1 <= Len(z_powers)
    THEN Len(coefficients) - 1 ELSE Len(z_powers)

\* lines 628, 630 and 631: mul_assign, mul_assign and add_assign per trip
horner_ops(coefficients, z_powers) == 3 * horner_trips(coefficients, z_powers)

----------------------------------------------------------------------------
(* G2 (crate pairing): the points of E : y^2 = x^3 + 4 (1 + i) over Fq2,   *)
(* each by its affine coordinates, and the identity.                       *)

G2Zero == [inf |-> TRUE, x |-> Fq2Zero, y |-> Fq2Zero]

G2Affine(x, y) == [inf |-> FALSE, x |-> x, y |-> y]

\* the coefficient 4 (1 + i) of E
G2CoeffB == 4

OnCurveE(p) ==
    p.inf \/ Square(p.y) = Add(Mul(Square(p.x), p.x), Fq2(G2CoeffB, G2CoeffB))

\* G2::double
G2Double(p) ==
    IF p.inf \/ IsZero(p.y) THEN G2Zero
    ELSE LET three_x2 == Mul(Fq2(3, 0), Square(p.x))
             lambda == Mul(three_x2, Unwrap(Inverse(Add(p.y, p.y))))
             x3 == Sub(Sub(Square(lambda), p.x), p.x)
             y3 == Sub(Mul(lambda, Sub(p.x, x3)), p.y)
         IN  G2Affine(x3, y3)

\* G2::add_assign
G2Add(p, o) ==
    IF p.inf THEN o
    ELSE IF o.inf THEN p
    ELSE IF p.x = o.x
         THEN IF p.y = o.y THEN G2Double(p) ELSE G2Zero
         ELSE LET lambda == Mul(Sub(o.y, p.y), Unwrap(Inverse(Sub(o.x, p.x))))
                  x3 == Sub(Sub(Square(lambda), p.x), o.x)
                  y3 == Sub(Mul(lambda, Sub(p.x, x3)), p.y)
              IN  G2Affine(x3, y3)

\* G2::mul_assign by the integer k >= 0: double and add
RECURSIVE G2Mul(_, _)
G2Mul(p, k) ==
    IF k = 0 THEN G2Zero
    ELSE LET half == G2Mul(p, k \div 2)
         IN  IF half.inf
             THEN IF k % 2 = 1 THEN p ELSE G2Zero
             ELSE IF k % 2 = 1 THEN G2Add(G2Double(half), p) ELSE G2Double(half)

----------------------------------------------------------------------------
(* from_coordinates_unchecked, lines 640-689, with G2Uncompressed.         *)

\* G2Uncompressed::empty(): four field elements
UncompressedSize == 4 * ReprLimbs * LimbBytes

\* Cursor::new(buffer)
NewCursor(buffer) == [buf |-> buffer, pos |-> 0]

\* Cursor::write_all: Err when the bytes do not fit in what is left
WriteAll(cursor, bytes) ==
    IF ~IsSome(cursor) THEN None
    ELSE LET c == Unwrap(cursor)
         IN  IF c.pos + Len(bytes) > Len(c.buf) THEN None
             ELSE Some([buf |-> [k \in 1 .. Len(c.buf) |->
                                   IF k > c.pos /\ k <= c.pos + Len(bytes)
                                   THEN bytes[k - c.pos] ELSE c.buf[k]],
                        pos |-> c.pos + Len(bytes)])

\* lines 656-660: for digit in x.into_repr().as_ref().iter().rev() { write_all(digit.to_be_bytes()) }
RECURSIVE write_digits(_, _, _)
write_digits(cursor, digits, k) ==
    IF k > Len(digits) THEN cursor
    ELSE write_digits(WriteAll(cursor, ToBeBytes(digits[k], LimbBytes)), digits, k + 1)

write_fq(cursor, x) == write_digits(cursor, Rev(FqIntoRepr(x)), 1)

\* byte & (1 << bit) != 0
HasBit(byte, bit) == (byte \div Pow2(bit)) % 2 = 1

\* byte & mask, for the mask of the low bits
LowBits(byte, bits) == byte % Pow2(bits)

\* FqRepr::read_be of the k-th field element of the buffer
read_be(buf, k) ==
    LET bytes == SubSeq(buf, (k - 1) * ReprLimbs * LimbBytes + 1,
                        k * ReprLimbs * LimbBytes)
    IN  Rev([j \in 1 .. ReprLimbs |->
               FromBeBytes(SubSeq(bytes, (j - 1) * LimbBytes + 1, j * LimbBytes))])

\* the four coordinates read from the masked copy
DecodeCoordinates(x_c1, x_c0, y_c1, y_c0) ==
    IF IsSome(x_c1) /\ IsSome(x_c0) /\ IsSome(y_c1) /\ IsSome(y_c0)
    THEN Some(G2Affine(Fq2(Unwrap(x_c0), Unwrap(x_c1)),
                       Fq2(Unwrap(y_c0), Unwrap(y_c1))))
    ELSE None

\* G2Uncompressed::into_affine_unchecked: Err (None) for a set flag (bits 7,
\* 6, 5 of the first byte) or a coordinate that is not below the modulus
into_affine_unchecked(buf) ==
    IF HasBit(buf[1], 7) THEN None
    ELSE IF HasBit(buf[1], 6)
         THEN IF [buf EXCEPT ![1] = LowBits(buf[1], 6)] = Zeros(Len(buf))
              THEN Some(G2Zero) ELSE None
    ELSE IF HasBit(buf[1], 5) THEN None
    ELSE DecodeCoordinates(
             FqFromRepr(read_be([buf EXCEPT ![1] = LowBits(buf[1], 5)], 1)),
             FqFromRepr(read_be([buf EXCEPT ![1] = LowBits(buf[1], 5)], 2)),
             FqFromRepr(read_be([buf EXCEPT ![1] = LowBits(buf[1], 5)], 3)),
             FqFromRepr(read_be([buf EXCEPT ![1] = LowBits(buf[1], 5)], 4)))

\* the end of the buffer writes: Err to None
CursorBuffer(cursor) == IF IsSome(cursor) THEN Some(Unwrap(cursor).buf) ELSE None

\* the buffer with c0 written before c1
uncompress_point_c0_first(p_x, p_y) ==
    CursorBuffer(
        write_fq(write_fq(write_fq(write_fq(
            Some(NewCursor(Zeros(UncompressedSize))), p_x[1]), p_x[2]), p_y[1]), p_y[2]))

\* lines 653-675: the buffer after the four loops; None when a write fails
uncompress_point(p_x, p_y) ==
    CursorBuffer(
        write_fq(write_fq(write_fq(write_fq(
            Some(NewCursor(Zeros(UncompressedSize))), p_x[2]), p_x[1]), p_y[2]), p_y[1]))

----------------------------------------------------------------------------
(* Fr (crate pairing, bls12_381::Fr) and the cofactor constant.            *)

\* the prime order of the subgroup G2
FrModulus == 7309

\* the decimal digits of h_eff given to Fr::from_str at line 31
HEffDigits == <<2, 6, 9, 0, 2, 9, 3, 5>>

\* the integer a decimal string denotes
RECURSIVE DecimalValue(_)
DecimalValue(digits) ==
    IF Len(digits) = 0 THEN 0
    ELSE DecimalValue(SubSeq(digits, 1, Len(digits) - 1)) * 10 + digits[Len(digits)]

\* PrimeField::from_str: None for an empty string or a leading zero; else
\* res = res * 10 + digit in Fr, digit after digit
RECURSIVE FrFromStrLoop(_, _, _)
FrFromStrLoop(digits, k, res) ==
    IF k > Len(digits) THEN res
    ELSE FrFromStrLoop(digits, k + 1, (res * 10 + digits[k]) % FrModulus)

FrFromStr(digits) ==
    IF Len(digits) = 0 THEN None
    ELSE IF digits = <<0>> THEN Some(0)
    ELSE IF digits[1] = 0 THEN None
    ELSE Some(FrFromStrLoop(digits, 1, 0))

----------------------------------------------------------------------------
(* Inputs.                                                                 *)

MsgBytes == {0, 97, 255}

RECURSIVE SeqsUpTo(_, _)
SeqsUpTo(S, n) ==
    IF n = 0 THEN { << >> }
    ELSE LET shorter == SeqsUpTo(S, n - 1)
         IN  shorter \cup { Append(s, x) : s \in shorter, x \in S }

Msgs == SeqsUpTo(MsgBytes, MaxMsgLen)

DstOfLen(n) == [k \in 1 .. n |-> (65 + 7 * k) % 256]

DstLens == (0 .. MaxShortDst) \cup ((U8Max - 1) .. (U8Max + MaxDstExcess))

Dsts == { DstOfLen(n) : n \in DstLens }

----------------------------------------------------------------------------
(* expand_message_xmd, lines 148-184.                                      *)

Init ==
    /\ msg \in Msgs
    /\ dst \in Dsts
    /\ pc = "dst_prime"
    /\ panic = "none"
    /\ dst_prime = << >>
    /\ hashed = << >>
    /\ b_0 = << >>
    /\ b = << >>
    /\ i = 0
    /\ u0 = None /\ u1 = None
    /\ q0 = None /\ q1 = None /\ r = None
    /\ result = None
    /\ call = 0
    /\ sswu_locals = << >>
    /\ iso_locals = << >>
    /\ from_locals = << >>
    /\ ops = 0

\* a failure handed back to the caller as a value: the call returns
PanicsAsError(site) == pc' = "returned" /\ panic' = site

\* an unwrap() or expect() on None / Err: the call ends in a panic
Panics(site) == pc' = "panicked" /\ panic' = site

\* a step that ends at the next position without a panic
Goes(next) == pc' = next /\ panic' = panic

\* let bindings and assignments: the locals with the named ones (re)bound
Let(locals, bound) == bound @@ locals

\* n more calls of the field operations of Fq2 (square, mul_assign,
\* add_assign, negate, inverse, sqrt) made by map_to_curve_g2
Counts(n) == ops' = ops + n

\* the length check made after the hasher has been fed z_pad and msg
ExpandDstPrimeLate ==
    /\ pc = "dst_prime"
    /\ hashed' = << Zeros(ZPadLen) \o msg >>
    /\ LET n == TryIntoU8(Len(dst))
       IN  IF IsSome(n)
           THEN dst_prime' = Append(dst, Unwrap(n)) /\ Goes("b_0")
           ELSE dst_prime' = dst /\ Panics("dst.len().try_into()")
    /\ UNCHANGED <<inVars, b_0, b, i, topVars, mapVars>>

\* lines 150-151: DST_prime = DST || I2OSP(len(DST), 1); the unwrap panics
\* when dst is longer than 255 bytes
ExpandDstPrime ==
    /\ pc = "dst_prime"
    /\ LET n == TryIntoU8(Len(dst))
       IN  IF IsSome(n)
           THEN dst_prime' = Append(dst, Unwrap(n)) /\ Goes("b_0")
           ELSE dst_prime' = dst /\ Panics("dst.len().try_into()")
    /\ UNCHANGED <<inVars, hashed, b_0, b, i, topVars, mapVars>>

\* lines 154-161: b_0 = H(Z_pad || msg || l_i_b_str || I2OSP(0, 1) || DST_prime)
ExpandB0 ==
    /\ pc = "b_0"
    /\ LET h == Zeros(ZPadLen) \o msg \o <<1, 0>> \o <<0>> \o dst_prime
       IN  /\ hashed' = Append(hashed, h)
           /\ b_0' = Sha256(h)
    /\ Goes("b_1")
    /\ UNCHANGED <<inVars, dst_prime, b, i, topVars, mapVars>>

\* lines 164-170: b_1 = H(b_0 || I2OSP(1, 1) || DST_prime), stored in b[0]
ExpandB1 ==
    /\ pc = "b_1"
    /\ LET h == b_0 \o <<1>> \o dst_prime
       IN  /\ hashed' = Append(hashed, h)
           /\ b' = [[k \in 1 .. NumBlocks |-> Zeros(HashLen)]
                       EXCEPT ![1] = Sha256(h)]
    /\ i' = 1
    /\ Goes("b_i")
    /\ UNCHANGED <<inVars, dst_prime, b_0, topVars, mapVars>>

\* the range 1u8..7, one iteration short
InLoopRangeShort(k) == k < NumBlocks - 1

\* the range 1u8..8 of the loop at line 173
InLoopRange(k) == k < NumBlocks

\* the counter byte without the offset: h.update([i])
CounterByteIndex(k) == k

\* the counter byte hashed at line 178 for array index k (0-based)
CounterByte(k) == k + 1

\* lines 173-181, one iteration: b[i] = H(strxor(b_0, b[i-1]) || [i+1] || DST_prime)
\* (the source's b[i] is b[i + 1] here: sequences start at 1)
ExpandBi ==
    /\ pc = "b_i"
    /\ InLoopRange(i)
    /\ LET h == StrXor(b_0, b[i]) \o <<CounterByte(i)>> \o dst_prime
       IN  /\ hashed' = Append(hashed, h)
           /\ b' = [b EXCEPT ![i + 1] = Sha256(h)]
    /\ i' = i + 1
    /\ Goes("b_i")
    /\ UNCHANGED <<inVars, dst_prime, b_0, topVars, mapVars>>

\* line 183: the loop is over, b is returned to hash_to_field_fq2
ExpandReturn ==
    /\ pc = "b_i"
    /\ ~InLoopRange(i)
    /\ Goes("to_field")
    /\ UNCHANGED <<inVars, xmdVars, topVars, mapVars>>

----------------------------------------------------------------------------
(* hash_to_field_fq2, lines 189-200.                                       *)

\* lines 191-199
HashToField ==
    /\ pc = "to_field"
    /\ LET us == FieldElements(b)
       IN  IF IsSome(us)
           THEN /\ u0' = Some(Unwrap(us)[1])
                /\ u1' = Some(Unwrap(us)[2])
                /\ Goes("map_q0")
           ELSE /\ UNCHANGED <<u0, u1>>
                /\ Panics("fq_from_bytes")
    /\ UNCHANGED <<inVars, xmdVars, q0, q1, r, result, mapVars>>

----------------------------------------------------------------------------
(* map_to_curve_g2 and sswu, lines 36-135.                                 *)

\* lines 23 and 24: the call map_to_curve_g2(u0), then map_to_curve_g2(u1);
\* line 37 calls sswu(u)
MapToCurveCall ==
    /\ pc \in {"map_q0", "map_q1"}
    /\ call' = IF pc = "map_q0" THEN 0 ELSE 1
    /\ sswu_locals' = [u |-> Unwrap(IF pc = "map_q0" THEN u0 ELSE u1)]
    /\ iso_locals' = << >>
    /\ from_locals' = << >>
    /\ ops' = 0
    /\ Goes("sswu_constants")
    /\ UNCHANGED <<inVars, xmdVars, topVars>>

\* lines 43-65: a, b, z, c1 = -B / A, c2 = -1 / Z
SswuConstants ==
    /\ pc = "sswu_constants"
    /\ IF ~(IsSome(sswu_a) /\ IsSome(sswu_b) /\ IsSome(sswu_z))
       THEN sswu_locals' = sswu_locals /\ Panics("sswu: from_repr")
       ELSE LET a == Unwrap(sswu_a)
                z == Negate(Unwrap(sswu_z))
            IN  IF ~(IsSome(Inverse(a)) /\ IsSome(Inverse(z)))
                THEN sswu_locals' = sswu_locals /\ Panics("sswu: inverse")
                ELSE /\ sswu_locals' = Let(sswu_locals,
                            [a |-> a, b |-> Unwrap(sswu_b), z |-> z,
                             c1 |-> Negate(Mul(Unwrap(Inverse(a)), Unwrap(sswu_b))),
                             c2 |-> Negate(Unwrap(Inverse(z)))])
                     /\ Goes("sswu_1")
    /\ Counts(6)
    /\ UNCHANGED <<inVars, xmdVars, topVars, call, iso_locals, from_locals>>

\* lines 70-79, steps 1.-3.: tv1 = Z * u^2, tv2 = tv1^2, x1 = tv1 + tv2
SswuStep1_3 ==
    /\ pc = "sswu_1"
    /\ LET tv1 == Mul(Square(sswu_locals.u), sswu_locals.z)
       IN  sswu_locals' = Let(sswu_locals,
               [tv1 |-> tv1, tv2 |-> Square(tv1), x1 |-> Add(tv1, Square(tv1))])
    /\ Goes("sswu_4")
    /\ Counts(4)
    /\ UNCHANGED <<inVars, xmdVars, topVars, call, iso_locals, from_locals>>

\* lines 80-92, steps 4.-7.: x1 = inv0(x1), e1 = x1 == 0, x1 = x1 + 1,
\* x1 = CMOV(x1, c2, e1)
SswuStep4_7 ==
    /\ pc = "sswu_4"
    /\ LET x1 == inv0(sswu_locals.x1)
       IN  sswu_locals' = Let(sswu_locals,
               [e1 |-> IsZero(x1),
                x1 |-> IF IsZero(x1) THEN sswu_locals.c2 ELSE Add(x1, Fq2One)])
    /\ Goes("sswu_8")
    /\ Counts(2)
    /\ UNCHANGED <<inVars, xmdVars, topVars, call, iso_locals, from_locals>>

\* steps 9.-11. alone: (x1^2 + A) * x1
sswu_gx1_without_b(x1, a_, b_) == Mul(Add(Square(x1), a_), x1)

\* lines 95-103, steps 9.-12.: gx1 = g(x1) = x1^3 + A * x1 + B
sswu_gx1(x1, a_, b_) == Add(Mul(Add(Square(x1), a_), x1), b_)

\* lines 93-103, steps 8.-12.: x1 = x1 * c1, gx1 = (x1^2 + A) * x1 + B
SswuStep8_12 ==
    /\ pc = "sswu_8"
    /\ LET x1 == Mul(sswu_locals.x1, sswu_locals.c1)
       IN  sswu_locals' = Let(sswu_locals,
               [x1 |-> x1,
                gx1 |-> sswu_gx1(x1, sswu_locals.a, sswu_locals.b)])
    /\ Goes("sswu_13")
    /\ Counts(5)
    /\ UNCHANGED <<inVars, xmdVars, topVars, call, iso_locals, from_locals>>

\* lines 104-111, steps 13.-15.: x2 = tv1 * x1, tv2 = tv1 * tv2, gx2 = gx1 * tv2
SswuStep13_15 ==
    /\ pc = "sswu_13"
    /\ LET tv2 == Mul(sswu_locals.tv2, sswu_locals.tv1)
       IN  sswu_locals' = Let(sswu_locals,
               [x2 |-> Mul(sswu_locals.tv1, sswu_locals.x1),
                tv2 |-> tv2,
                gx2 |-> Mul(sswu_locals.gx1, tv2)])
    /\ Goes("sswu_16")
    /\ Counts(3)
    /\ UNCHANGED <<inVars, xmdVars, topVars, call, iso_locals, from_locals>>

\* lines 112-124, steps 16.-18.: e2 = is_square(gx1), x = CMOV(x2, x1, e2),
\* y2 = CMOV(gx2, gx1, e2)
SswuStep16_18 ==
    /\ pc = "sswu_16"
    /\ LET e2 == IsSome(Sqrt(sswu_locals.gx1))
       IN  sswu_locals' = Let(sswu_locals,
               [e2 |-> e2,
                x |-> IF e2 THEN sswu_locals.x1 ELSE sswu_locals.x2,
                y2 |-> IF e2 THEN sswu_locals.gx1 ELSE sswu_locals.gx2])
    /\ Goes("sswu_19")
    /\ Counts(1)
    /\ UNCHANGED <<inVars, xmdVars, topVars, call, iso_locals, from_locals>>

\* the branches exchanged: y negated when the signs agree
FixSignInverted(u, y) == IF sgn0(u) = sgn0(y) THEN Negate(y) ELSE y

\* CMOV(-y, y, e3) of lines 128-132
FixSign(u, y) == IF sgn0(u) = sgn0(y) THEN y ELSE Negate(y)

\* lines 125-134, steps 19.-22.: y = sqrt(y2).unwrap(), e3 = sgn0(u) == sgn0(y),
\* y = CMOV(-y, y, e3), return (x, y); line 38 calls iso_map(x, y, Fq2::one())
SswuStep19_22 ==
    /\ pc = "sswu_19"
    /\ LET y == Sqrt(sswu_locals.y2)
       IN  IF ~IsSome(y)
           THEN /\ UNCHANGED <<sswu_locals, iso_locals>>
                /\ Counts(1)
                /\ Panics("sswu: sqrt")
           ELSE /\ sswu_locals' = Let(sswu_locals,
                       [e3 |-> sgn0(sswu_locals.u) = sgn0(Unwrap(y)),
                        y |-> FixSign(sswu_locals.u, Unwrap(y))])
                /\ iso_locals' = [x |-> sswu_locals.x,
                                  y |-> FixSign(sswu_locals.u, Unwrap(y)),
                                  z |-> Fq2One]
                /\ Counts(IF sgn0(sswu_locals.u) = sgn0(Unwrap(y)) THEN 1 ELSE 2)
                /\ Goes("iso_z_pow")
    /\ UNCHANGED <<inVars, xmdVars, topVars, call, from_locals>>

----------------------------------------------------------------------------
(* iso_map, lines 226-279.  z_pow_2i[k] of the source is z_pow_2i[k + 1].  *)

\* lines 228-236: z_pow_2i = [z; 15], then Z^2, Z^4, Z^6, Z^8
IsoZPowInit ==
    /\ pc = "iso_z_pow"
    /\ LET z2 == Square(iso_locals.z)
           z4 == Square(z2)
           z_ == Mul(z4, z2)
       IN  iso_locals' = Let(iso_locals,
               [z_pow_2i |-> [k \in 1 .. NumZPowers |->
                                IF k = 1 THEN z2
                                ELSE IF k = 2 THEN z4
                                ELSE IF k = 3 THEN z_
                                ELSE IF k = 4 THEN Square(z4)
                                ELSE iso_locals.z],
                z_ |-> z_,
                i |-> 0])
    /\ Goes("iso_loop_1")
    /\ Counts(4)
    /\ UNCHANGED <<inVars, xmdVars, topVars, call, sswu_locals, from_locals>>

\* a range one short: 0..2
InRange0To2(k) == k < 2

\* line 237: for i in 0..3
InRange0To3(k) == k < 3

\* line 245: for i in 0..7
InRange0To7(k) == k < 7

\* the body with the entry about to be written read in place of the one
\* before it
IsoZPowStepUnwritten(from) ==
    LET z_ == Mul(iso_locals.z_pow_2i[from + iso_locals.i + 2], iso_locals.z_pow_2i[1])
    IN  iso_locals' = Let(iso_locals,
            [z_ |-> z_,
             z_pow_2i |-> [iso_locals.z_pow_2i EXCEPT ![from + iso_locals.i + 2] = z_],
             i |-> iso_locals.i + 1])

\* the body of the loops at lines 237-242 and 245-250, from entry `from`:
\* z_ = z_pow_2i[from + i] * z_pow_2i[0], z_pow_2i[from + 1 + i] = z_
IsoZPowStep(from) ==
    LET z_ == Mul(iso_locals.z_pow_2i[from + iso_locals.i + 1], iso_locals.z_pow_2i[1])
    IN  iso_locals' = Let(iso_locals,
            [z_ |-> z_,
             z_pow_2i |-> [iso_locals.z_pow_2i EXCEPT ![from + iso_locals.i + 2] = z_],
             i |-> iso_locals.i + 1])

\* lines 237-242, one iteration of for i in 0..3: Z^10, Z^12, Z^14
IsoZPowLoop1 ==
    /\ pc = "iso_loop_1"
    /\ InRange0To3(iso_locals.i)
    /\ IsoZPowStep(3)
    /\ Goes("iso_loop_1")
    /\ Counts(1)
    /\ UNCHANGED <<inVars, xmdVars, topVars, call, sswu_locals, from_locals>>

\* lines 243-244: z_pow_2i[7] = z_pow_2i[3]^2 = Z^16
IsoZPow16 ==
    /\ pc = "iso_loop_1"
    /\ ~InRange0To3(iso_locals.i)
    /\ iso_locals' = Let(iso_locals,
           [z_pow_2i |-> [iso_locals.z_pow_2i EXCEPT ![8] = Square(iso_locals.z_pow_2i[4])],
            i |-> 0])
    /\ Goes("iso_loop_2")
    /\ Counts(1)
    /\ UNCHANGED <<inVars, xmdVars, topVars, call, sswu_locals, from_locals>>

\* lines 245-250, one iteration of for i in 0..7: Z^18, ..., Z^30
IsoZPowLoop2 ==
    /\ pc = "iso_loop_2"
    /\ InRange0To7(iso_locals.i)
    /\ IsoZPowStep(7)
    /\ Goes("iso_loop_2")
    /\ Counts(1)
    /\ UNCHANGED <<inVars, xmdVars, topVars, call, sswu_locals, from_locals>>

\* one of the four horner calls and the products after it: the locals with
\* name bound to value, or a panic in fq2_from_u64s
IsoHorner(name, value, n, next) ==
    /\ Counts(n)
    /\ IF IsSome(value)
       THEN iso_locals' = Let(iso_locals, name :> Unwrap(value)) /\ Goes(next)
       ELSE iso_locals' = iso_locals /\ Panics("horner: from_repr")
    /\ UNCHANGED <<inVars, xmdVars, topVars, call, sswu_locals, from_locals>>

\* the value without the product
MapMulDropped(x, o) == o

\* Option::map of a product
MapMul(x, o) == IF IsSome(o) THEN Some(Mul(x, Unwrap(o))) ELSE None

\* line 252: x_num = horner(&K1, &z_pow_2i, &x), once the loop is over
IsoXNum ==
    /\ pc = "iso_loop_2"
    /\ ~InRange0To7(iso_locals.i)
    /\ IsoHorner("x_num", horner(K1, iso_locals.z_pow_2i, iso_locals.x),
                 horner_ops(K1, iso_locals.z_pow_2i), "iso_x_den")

\* lines 254-256: x_den = z_pow_2i[0] * horner(&K2, &z_pow_2i, &x)
IsoXDen ==
    /\ pc = "iso_x_den"
    /\ IsoHorner("x_den",
                 MapMul(iso_locals.z_pow_2i[1],
                     horner(K2, iso_locals.z_pow_2i, iso_locals.x)),
                 horner_ops(K2, iso_locals.z_pow_2i) + 1, "iso_y_num")

\* lines 258-260: y_num = y * horner(&K3, &z_pow_2i, &x)
IsoYNum ==
    /\ pc = "iso_y_num"
    /\ IsoHorner("y_num",
                 MapMul(iso_locals.y,
                     horner(K3, iso_locals.z_pow_2i, iso_locals.x)),
                 horner_ops(K3, iso_locals.z_pow_2i) + 1, "iso_y_den")

\* lines 262-265: y_den = z_pow_2i[0] * z * horner(&K4, &z_pow_2i, &x)
IsoYDen ==
    /\ pc = "iso_y_den"
    /\ IsoHorner("y_den",
                 MapMul(Mul(iso_locals.z_pow_2i[1], iso_locals.z),
                     horner(K4, iso_locals.z_pow_2i, iso_locals.x)),
                 horner_ops(K4, iso_locals.z_pow_2i) + 2, "iso_jac")

\* the same with y_jac = y_num * x_den * z_jac, z_jac not squared
IsoJacobianUnsquared ==
    /\ pc = "iso_jac"
    /\ LET z_jac == Mul(iso_locals.x_den, iso_locals.y_den)
           x_jac == Mul(Mul(iso_locals.x_num, iso_locals.y_den), z_jac)
           y_jac == Mul(Mul(iso_locals.y_num, iso_locals.x_den), z_jac)
       IN  /\ iso_locals' = Let(iso_locals,
                  [z_jac |-> z_jac, x_jac |-> x_jac, z_jac_pow2 |-> Square(z_jac),
                   y_jac |-> y_jac])
           /\ from_locals' = [x |-> x_jac, y |-> y_jac, z |-> z_jac]
    /\ Goes("from_coordinates")
    /\ Counts(6)
    /\ UNCHANGED <<inVars, xmdVars, topVars, call, sswu_locals>>

\* lines 267-278: z_jac = x_den * y_den, x_jac = x_num * y_den * z_jac,
\* y_jac = y_num * x_den * z_jac^2, return; line 39 calls
\* from_coordinates_unchecked(x, y, z)
IsoJacobian ==
    /\ pc = "iso_jac"
    /\ LET z_jac == Mul(iso_locals.x_den, iso_locals.y_den)
           x_jac == Mul(Mul(iso_locals.x_num, iso_locals.y_den), z_jac)
           y_jac == Mul(Mul(iso_locals.y_num, iso_locals.x_den), Square(z_jac))
       IN  /\ iso_locals' = Let(iso_locals,
                  [z_jac |-> z_jac, x_jac |-> x_jac, z_jac_pow2 |-> Square(z_jac),
                   y_jac |-> y_jac])
           /\ from_locals' = [x |-> x_jac, y |-> y_jac, z |-> z_jac]
    /\ Goes("from_coordinates")
    /\ Counts(6)
    /\ UNCHANGED <<inVars, xmdVars, topVars, call, sswu_locals>>

----------------------------------------------------------------------------
(* from_coordinates_unchecked, lines 640-689, and hash_to_curve_g2, 20-34. *)

\* lines 23 and 24: map_to_curve_g2 returns point, bound to q0 or to q1
MapToCurveReturn(point) ==
    IF call = 0
    THEN q0' = Some(point) /\ q1' = q1 /\ Goes("map_q1")
    ELSE q1' = Some(point) /\ q0' = q0 /\ Goes("add")

\* p_y = y / z^2: the product by z_inv of line 650 left out
FromCoordinatesAffineSquare ==
    /\ pc = "from_coordinates"
    /\ IF IsZero(from_locals.z)
       THEN from_locals' = from_locals /\ ops' = ops /\ MapToCurveReturn(G2Zero)
       ELSE LET z_inv == Inverse(from_locals.z)
            IN  IF ~IsSome(z_inv)
                THEN /\ UNCHANGED <<from_locals, q0, q1>>
                     /\ Counts(1)
                     /\ Panics("from_coordinates_unchecked: inverse")
                ELSE /\ from_locals' = Let(from_locals,
                            [z_inv |-> Unwrap(z_inv),
                             z_inv2 |-> Square(Unwrap(z_inv)),
                             p_x |-> Mul(from_locals.x, Square(Unwrap(z_inv))),
                             p_y |-> Mul(from_locals.y, Square(Unwrap(z_inv)))])
                     /\ UNCHANGED <<q0, q1>>
                     /\ Counts(5)
                     /\ Goes("from_write")
    /\ UNCHANGED <<inVars, xmdVars, u0, u1, r, result, call, sswu_locals, iso_locals>>

\* the else branch of line 643 taken whatever z is
FromCoordinatesAffineUnguarded ==
    /\ pc = "from_coordinates"
    /\ LET z_inv == Inverse(from_locals.z)
       IN  IF ~IsSome(z_inv)
           THEN /\ UNCHANGED <<from_locals, q0, q1>>
                /\ Counts(1)
                /\ Panics("from_coordinates_unchecked: inverse")
           ELSE /\ from_locals' = Let(from_locals,
                       [z_inv |-> Unwrap(z_inv),
                        z_inv2 |-> Square(Unwrap(z_inv)),
                        p_x |-> Mul(from_locals.x, Square(Unwrap(z_inv))),
                        p_y |-> Mul(Mul(from_locals.y, Unwrap(z_inv)),
                                    Square(Unwrap(z_inv)))])
                /\ UNCHANGED <<q0, q1>>
                /\ Counts(5)
                /\ Goes("from_write")
    /\ UNCHANGED <<inVars, xmdVars, u0, u1, r, result, call, sswu_locals, iso_locals>>

\* lines 641-651: G2::zero() for z = 0, else the affine coordinates
\* p_x = x / z^2, p_y = y / z^3
FromCoordinatesAffine ==
    /\ pc = "from_coordinates"
    /\ IF IsZero(from_locals.z)
       THEN from_locals' = from_locals /\ ops' = ops /\ MapToCurveReturn(G2Zero)
       ELSE LET z_inv == Inverse(from_locals.z)
            IN  IF ~IsSome(z_inv)
                THEN /\ UNCHANGED <<from_locals, q0, q1>>
                     /\ Counts(1)
                     /\ Panics("from_coordinates_unchecked: inverse")
                ELSE /\ from_locals' = Let(from_locals,
                            [z_inv |-> Unwrap(z_inv),
                             z_inv2 |-> Square(Unwrap(z_inv)),
                             p_x |-> Mul(from_locals.x, Square(Unwrap(z_inv))),
                             p_y |-> Mul(Mul(from_locals.y, Unwrap(z_inv)),
                                         Square(Unwrap(z_inv)))])
                     /\ UNCHANGED <<q0, q1>>
                     /\ Counts(5)
                     /\ Goes("from_write")
    /\ UNCHANGED <<inVars, xmdVars, u0, u1, r, result, call, sswu_locals, iso_locals>>

\* lines 653-675: the four write loops into uncompress_point
FromCoordinatesWrite ==
    /\ pc = "from_write"
    /\ LET written == uncompress_point(from_locals.p_x, from_locals.p_y)
       IN  IF IsSome(written)
           THEN /\ from_locals' = Let(from_locals, [uncompress_point |-> Unwrap(written)])
                /\ Goes("from_decode")
           ELSE /\ from_locals' = from_locals
                /\ Panics("from_coordinates_unchecked: write_all")
    /\ ops' = ops
    /\ UNCHANGED <<inVars, xmdVars, topVars, call, sswu_locals, iso_locals>>

\* lines 686-687: G2::from(uncompress_point.into_affine_unchecked().expect(..))
FromCoordinatesDecode ==
    /\ pc = "from_decode"
    /\ LET res == into_affine_unchecked(from_locals.uncompress_point)
       IN  IF IsSome(res)
           THEN MapToCurveReturn(Unwrap(res))
           ELSE UNCHANGED <<q0, q1>>
                /\ Panics("from_coordinates_unchecked: into_affine_unchecked")
    /\ UNCHANGED <<inVars, xmdVars, u0, u1, r, result, mapVars>>

\* lines 26-27: r = q0; r.add_assign(&q1)
AddAssign ==
    /\ pc = "add"
    /\ r' = Some(G2Add(Unwrap(q0), Unwrap(q1)))
    /\ Goes("clear_cofactor")
    /\ UNCHANGED <<inVars, xmdVars, u0, u1, q0, q1, result, mapVars>>

\* line 31: h_eff = Fr::from_str("2098...").unwrap()
h_eff == FrFromStr(HEffDigits)

\* lines 31-32: r.mul_assign(h_eff), by the integer the scalar holds
ClearCofactor ==
    /\ pc = "clear_cofactor"
    /\ IF IsSome(h_eff)
       THEN r' = Some(G2Mul(Unwrap(r), Unwrap(h_eff))) /\ Goes("return")
       ELSE r' = r /\ Panics("Fr::from_str")
    /\ UNCHANGED <<inVars, xmdVars, u0, u1, q0, q1, result, mapVars>>

\* line 33
Return ==
    /\ pc = "return"
    /\ result' = r
    /\ Goes("returned")
    /\ UNCHANGED <<inVars, xmdVars, u0, u1, q0, q1, r, mapVars>>

Next ==
    \/ ExpandDstPrime
    \/ ExpandB0
    \/ ExpandB1
    \/ ExpandBi
    \/ ExpandReturn
    \/ HashToField
    \/ MapToCurveCall
    \/ SswuConstants
    \/ SswuStep1_3
    \/ SswuStep4_7
    \/ SswuStep8_12
    \/ SswuStep13_15
    \/ SswuStep16_18
    \/ SswuStep19_22
    \/ IsoZPowInit
    \/ IsoZPowLoop1
    \/ IsoZPow16
    \/ IsoZPowLoop2
    \/ IsoXNum
    \/ IsoXDen
    \/ IsoYNum
    \/ IsoYDen
    \/ IsoJacobian
    \/ FromCoordinatesAffine
    \/ FromCoordinatesWrite
    \/ FromCoordinatesDecode
    \/ AddAssign
    \/ ClearCofactor
    \/ Return

Spec == Init /\ [][Next]_vars

----------------------------------------------------------------------------
(* hash_to_field_fq2 on its own, lines 191-199: the conversion of every    *)
(* pair of blocks, whatever expand_message_xmd returns.                    *)

\* the bytes of a block: the small ones and the largest
BlockBytes == (0 .. MaxBlockByte) \cup {U8Max}

\* the digests, HashLen bytes each
Blocks == { s \in SeqsUpTo(BlockBytes, HashLen) : Len(s) = HashLen }

\* line 190 has returned b: a pair (left, right) in each order, and twice
\* each of the two
InitField ==
    /\ msg = << >> /\ dst = << >>
    /\ pc = "to_field"
    /\ panic = "none"
    /\ dst_prime = << >> /\ hashed = << >> /\ b_0 = << >> /\ i = 0
    /\ \E left \in Blocks, right \in Blocks :
           b = <<left, right, right, left, left, left, right, right>>
    /\ u0 = None /\ u1 = None
    /\ q0 = None /\ q1 = None /\ r = None
    /\ result = None
    /\ call = 0
    /\ sswu_locals = << >>
    /\ iso_locals = << >>
    /\ from_locals = << >>
    /\ ops = 0

NextField == HashToField

SpecField == InitField /\ [][NextField]_vars

----------------------------------------------------------------------------
(* map_to_curve_g2 on its own, lines 36-40, and from_coordinates_unchecked *)
(* on its own, lines 640-689: every input, not only those a digest gives.  *)

\* the field elements given to map_to_curve_g2 and, as coordinates, to
\* from_coordinates_unchecked
Us == { Fq2(c0, c1) : c0 \in 0 .. MaxU, c1 \in 0 .. MaxU }

\* the z given to from_coordinates_unchecked: zero, one and i
Zs == { Fq2Zero, Fq2One, Fq2(0, 1) }

\* lines 21-24 with (u0, u1) = (u, -u): map_to_curve_g2 is called on both
InitMapToCurve ==
    /\ pc = "map_q0"
    /\ \E u \in Us : u0 = Some(u) /\ u1 = Some(Negate(u))
    /\ call = 0
    /\ from_locals = << >>

\* the factors the coordinates are rescaled by: one, i and 2 + i
Lambdas == { Fq2One, Fq2(0, 1), Fq2(2, 1) }

\* the arguments (lambda^2 x, lambda^3 y, lambda z), which denote the point
\* (x, y, z) denotes
Rescaled(x, y, z, lambda) ==
    [x |-> Mul(Square(lambda), x),
     y |-> Mul(Mul(Square(lambda), lambda), y),
     z |-> Mul(lambda, z)]

\* line 640: from_coordinates_unchecked(x, y, z) is entered
InitFromCoordinates ==
    /\ pc = "from_coordinates"
    /\ u0 = None /\ u1 = None
    /\ call = 1
    /\ \E x \in Us, y \in Us, z \in Zs, lambda \in Lambdas :
           from_locals = Rescaled(x, y, z, lambda)

InitMap ==
    /\ msg = << >> /\ dst = << >>
    /\ panic = "none"
    /\ dst_prime = << >> /\ hashed = << >> /\ b_0 = << >> /\ b = << >> /\ i = 0
    /\ q0 = None /\ q1 = None /\ r = None
    /\ result = None
    /\ sswu_locals = << >>
    /\ iso_locals = << >>
    /\ ops = 0
    /\ (InitMapToCurve \/ InitFromCoordinates)

NextMap ==
    \/ MapToCurveCall
    \/ SswuConstants
    \/ SswuStep1_3
    \/ SswuStep4_7
    \/ SswuStep8_12
    \/ SswuStep13_15
    \/ SswuStep16_18
    \/ SswuStep19_22
    \/ IsoZPowInit
    \/ IsoZPowLoop1
    \/ IsoZPow16
    \/ IsoZPowLoop2
    \/ IsoXNum
    \/ IsoXDen
    \/ IsoYNum
    \/ IsoYDen
    \/ IsoJacobian
    \/ FromCoordinatesAffine
    \/ FromCoordinatesWrite
    \/ FromCoordinatesDecode

SpecMap == InitMap /\ [][NextMap]_vars

----------------------------------------------------------------------------
(* iso_map on its own, lines 226-279, followed by the conversion of its    *)
(* output by from_coordinates_unchecked as at line 39.                     *)

\* the x at which K2 and K4 vanish for z = 1: x^2 + (12 - 12 i) x - 72 i is
\* (x + 6 - 6 i)^2
DenominatorRoot == Fq2(NegFq(6), 6)

\* the x given to iso_map
Xs == Us \cup {DenominatorRoot}

\* line 226: iso_map(x, y, z) is entered
InitIsoMap ==
    /\ pc = "iso_z_pow"
    /\ u0 = None /\ u1 = None
    /\ call = 1
    /\ \E x \in Xs, y \in Zs, z \in Us : iso_locals = [x |-> x, y |-> y, z |-> z]
    /\ from_locals = << >>

InitIso ==
    /\ msg = << >> /\ dst = << >>
    /\ panic = "none"
    /\ dst_prime = << >> /\ hashed = << >> /\ b_0 = << >> /\ b = << >> /\ i = 0
    /\ q0 = None /\ q1 = None /\ r = None
    /\ result = None
    /\ sswu_locals = << >>
    /\ ops = 0
    /\ \/ InitIsoMap
       \/ InitFromCoordinates /\ iso_locals = << >>

NextIso ==
    \/ IsoZPowInit
    \/ IsoZPowLoop1
    \/ IsoZPow16
    \/ IsoZPowLoop2
    \/ IsoXNum
    \/ IsoXDen
    \/ IsoYNum
    \/ IsoYDen
    \/ IsoJacobian
    \/ FromCoordinatesAffine
    \/ FromCoordinatesWrite
    \/ FromCoordinatesDecode

SpecIso == InitIso /\ [][NextIso]_vars

----------------------------------------------------------------------------
(* Properties of hash_to_curve_g2.                                         *)

\* the site of the only panic a call is meant to have: line 151
DstLenSite == "dst.len().try_into()"

\* the call has ended, in a return or in a panic
Ended == pc \in {"returned", "panicked"}

\* C1: for every message and every DST of at most 255 bytes, the point
\* hash_to_curve_g2 returns lies in the prime-order subgroup: multiplied by
\* the prime order r it is the identity, whatever R = Q0 + Q1 was.
C1_SubgroupMembership ==
    (pc = "returned" /\ Len(dst) <= U8Max)
        => G2Mul(Unwrap(result), FrModulus) = G2Zero

\* C2: hash_to_curve_g2 returns h_eff (Q0 + Q1) with Q0, Q1 the images of
\* u0, u1 under map_to_curve_g2 and h_eff the full integer the decimal
\* string denotes.
C2_FullCofactor ==
    pc = "returned"
        => result = Some(G2Mul(G2Add(Unwrap(q0), Unwrap(q1)), DecimalValue(HEffDigits)))

\* C4: expand_message_xmd succeeds for every DST of 0..255 bytes, with
\* DST_prime the whole DST followed by its length byte, and fails at the length
\* check for every DST of 256 bytes or more; a DST is never truncated.
C4_DstBoundary ==
    /\ pc # "dst_prime" =>
           IF Len(dst) <= U8Max
           THEN /\ ~(pc = "panicked" /\ panic = DstLenSite)
                /\ Len(dst_prime) = Len(dst) + 1
                /\ SubSeq(dst_prime, 1, Len(dst)) = dst
                /\ dst_prime[Len(dst) + 1] = Len(dst)
           ELSE pc = "panicked" /\ panic = DstLenSite
    /\ pc = "b_i" => (i \in 1 .. NumBlocks /\ Len(b) = NumBlocks)
    /\ (Len(dst) <= U8Max /\ Ended) => Len(hashed) = NumBlocks + 1

\* a 255-byte DST has been expanded
C4_Witness == Len(dst) = U8Max /\ pc = "to_field" /\ Len(dst_prime) = U8Max + 1

\* C5 as stated: the over-long DST is an error the call returns to its
\* caller, who continues, and no other error is ever returned.
C5_OverlongDstIsReturnedError ==
    /\ (Len(dst) > U8Max /\ pc # "dst_prime") => (pc = "returned" /\ ~IsSome(result))
    /\ (pc = "returned" /\ ~IsSome(result)) => Len(dst) > U8Max

\* C5, amended: an over-long DST makes the call panic at the length
\* conversion of line 151; nothing is returned to the caller, a call that
\* returns always returns a point, and that panic is the only way a call fails.
C5_OverlongDstPanics ==
    /\ (Len(dst) > U8Max /\ pc # "dst_prime")
           => (pc = "panicked" /\ panic = DstLenSite /\ result = None)
    /\ pc = "panicked" => (panic = DstLenSite /\ Len(dst) > U8Max)
    /\ pc = "returned" => (IsSome(result) /\ panic = "none")

\* a call with a 256-byte DST has panicked
C5_Witness == Len(dst) = U8Max + 1 /\ pc = "panicked" /\ panic = DstLenSite

\* C6: the length of the DST is checked before any hash is computed: no
\* hasher has been fed anything when the check is made, and in a call with an
\* over-long DST none ever is.
C6_CheckBeforeHashing ==
    (pc = "dst_prime" \/ Len(dst) > U8Max)
        => (hashed = << >> /\ b_0 = << >> /\ b = << >>)

\* a call with the longest DST has failed with nothing hashed
C6_Witness ==
    Len(dst) = U8Max + MaxDstExcess /\ pc = "panicked" /\ hashed = << >>

\* the leading byte of an encoded field element is below this (27 for the
\* modulus of line 682)
LeadingByteBound == FqModulus \div Pow2(8 * (ReprLimbs * LimbBytes - 1)) + 1

\* the positions of the straight-line steps: the step applies at its position
StraightLine ==
    {"dst_prime", "b_0", "b_1", "to_field", "map_q0", "map_q1", "sswu_constants",
     "sswu_1", "sswu_4", "sswu_8", "sswu_13", "sswu_16", "sswu_19", "iso_z_pow",
     "iso_x_den", "iso_y_num", "iso_y_den", "iso_jac", "from_coordinates",
     "from_write", "from_decode", "add", "clear_cofactor", "return"}

\* a step of the code applies: a straight-line step, or the body or the exit of
\* one of the three loops, whose counters are within their ranges
CanStep ==
    \/ pc \in StraightLine
    \/ pc = "b_i" /\ i \in 1 .. NumBlocks
    \/ pc = "iso_loop_1" /\ iso_locals.i \in 0 .. 3
    \/ pc = "iso_loop_2" /\ iso_locals.i \in 0 .. 7

\* C7: for every message and every DST of at most 255 bytes the call
\* completes and returns a point: no unwrap or expect panics, a step applies
\* at every position before the return, and the leading byte of the
\* uncompressed buffer stays below 2^5, so that its three flag bits are never
\* set.
C7_Totality ==
    /\ Len(dst) <= U8Max => pc # "panicked"
    /\ ~Ended => CanStep
    /\ pc = "returned" => IsSome(result)
    /\ pc = "from_decode" =>
           /\ from_locals.uncompress_point[1] < LeadingByteBound
           /\ LeadingByteBound < Pow2(5)

\* a call with a 255-byte DST has returned a point other than the identity
C7_Witness ==
    /\ pc = "returned" /\ Len(dst) = U8Max
    /\ IsSome(result) /\ ~Unwrap(result).inf

\* C8: for every message, the empty one included, and every DST of at
\* most 255 bytes, expand_message_xmd returns exactly 8 blocks of one digest
\* each, every block the output of one hash computation.
C8_ExpansionLength ==
    pc = "to_field" =>
        /\ Len(b) = NumBlocks
        /\ Len(hashed) = NumBlocks + 1
        /\ \A k \in 1 .. NumBlocks :
               /\ Len(b[k]) = HashLen
               /\ k + 1 <= Len(hashed) /\ b[k] = Sha256(hashed[k + 1])

\* the empty message has been expanded
C8_Witness == pc = "to_field" /\ msg = << >> /\ Len(b) = NumBlocks

\* b_k of the claim, from b0 and dst': b_1 = Hash(b0 || 0x01 || dst'),
\* b_k = Hash(xor(b0, b_{k-1}) || byte(k) || dst')
RECURSIVE ClaimedBlock(_, _, _)
ClaimedBlock(k, b0, dstp) ==
    IF k = 1 THEN Sha256(b0 \o <<1>> \o dstp)
    ELSE Sha256(StrXor(b0, ClaimedBlock(k - 1, b0, dstp)) \o <<k>> \o dstp)

\* b0 of the claim
ClaimedB0(dstp) == Sha256(Zeros(64) \o msg \o <<1, 0>> \o <<0>> \o dstp)

\* C9: with dst' = dst || byte(len(dst)), b0 = Hash(64 zero bytes ||
\* message || 0x01 0x00 || 0x00 || dst'), b1 = Hash(b0 || 0x01 || dst'),
\* b_i = Hash(xor(b0, b_{i-1}) || byte(i) || dst') for i in 2..8, and the
\* returned array holds b1..b8 at indices 0..7, b0 not being output.
C9_ExpansionStructure ==
    pc = "to_field" =>
        /\ b_0 = ClaimedB0(dst \o << Len(dst) >>)
        /\ Len(b) = 8
        /\ \A k \in 0 .. 7 :
               b[k + 1] = ClaimedBlock(k + 1, ClaimedB0(dst \o << Len(dst) >>),
                                       dst \o << Len(dst) >>)

\* a two-byte message has been expanded under a two-byte DST
C9_Witness ==
    pc = "to_field" /\ Len(msg) = MaxMsgLen /\ Len(dst) = MaxShortDst /\ Len(b) = NumBlocks

\* the big-endian integer of a byte string, reduced into Fq byte after byte
RECURSIVE BigEndianModQ(_)
BigEndianModQ(bytes) ==
    IF Len(bytes) = 0 THEN 0
    ELSE (BigEndianModQ(SubSeq(bytes, 1, Len(bytes) - 1)) * 256 + bytes[Len(bytes)])
             % FqModulus

\* C10: u0.c0 comes from blocks (0, 1), u0.c1 from (2, 3), u1.c0 from
\* (4, 5), u1.c1 from (6, 7), the lower-indexed block of a pair being the
\* high-order half, every block used once.
C10_BlockAssignment ==
    pc = "map_q0" =>
        /\ u0 = Some(Fq2(BigEndianModQ(b[1] \o b[2]), BigEndianModQ(b[3] \o b[4])))
        /\ u1 = Some(Fq2(BigEndianModQ(b[5] \o b[6]), BigEndianModQ(b[7] \o b[8])))

\* hash_to_field_fq2 has returned two different elements, each with two
\* different components
C10_Witness ==
    /\ pc = "map_q0" /\ IsSome(u0) /\ IsSome(u1) /\ u0 # u1
    /\ Unwrap(u0)[1] # Unwrap(u0)[2] /\ Unwrap(u1)[1] # Unwrap(u1)[2]

----------------------------------------------------------------------------
(* Properties of hash_to_field_fq2 and fq_from_bytes.                      *)

\* (left * 2^(8 HashLen) + right) mod q, digit by digit from the highest
\* one: no conversion of the program is used
LeftRightModQ(left, right) == BigEndianModQ(left \o right)

\* the integer of two bytes, the first the high one
TwoBytes(bytes, k) == bytes[k] * 256 + bytes[k + 1]

\* C11: fq_from_bytes(left, right) is (left * 2^256 + right) mod q for every
\* pair of digests; the limb conversion places the last limb's bytes of the
\* input in the least significant limb, big-endian within the limb, and
\* leaves the limbs above the digest zero; two_to_256_fqrepr denotes the
\* power of two one digest wide.
C11_FqFromBytes ==
    /\ ReprValue(two_to_256_fqrepr) = Pow2(8 * HashLen)
    /\ \A k \in 1 .. Len(b) :
          /\ digits_from_be_bytes(b[k], LimbBytes, ReprLimbs)
                 = <<b[k][HashLen], b[k][HashLen - 1], 0>>
          /\ le_u64s_from_be_bytes(b[k]) = Some(TwoBytes(b[k], 1) % FqModulus)
    /\ \A k \in 1 .. Len(b) - 1 :
          /\ digits_from_be_bytes(b[k] \o b[k + 1], HashLen, ReprLimbs)
                 = <<TwoBytes(b[k + 1], 1), TwoBytes(b[k], 1), 0>>
          /\ fq_from_bytes(b[k], b[k + 1]) = Some(LeftRightModQ(b[k], b[k + 1]))
    /\ pc = "map_q0" =>
          /\ panic = "none"
          /\ u0 = Some(Fq2(LeftRightModQ(b[1], b[2]), LeftRightModQ(b[3], b[4])))
          /\ u1 = Some(Fq2(LeftRightModQ(b[5], b[6]), LeftRightModQ(b[7], b[8])))

\* the conversion has run on two different digests, the first of them the
\* largest one, whose integer is beyond the modulus
C11_Witness ==
    /\ pc = "map_q0" /\ Len(b) = NumBlocks
    /\ b[1] = <<U8Max, U8Max>> /\ b[2] = <<0, 1>>
    /\ u0 = Some(Fq2(LeftRightModQ(b[1], b[2]), LeftRightModQ(b[2], b[1])))

----------------------------------------------------------------------------
(* Properties of sswu, sgn0 and iso_map.                                   *)

\* (x, y) is on E' : y^2 = x^3 + 240 i x + 1012 (1 + i)
OnCurveEIso(x, y) ==
    Square(y) = Add(Add(Mul(Mul(x, x), x), Mul(Fq2(0, SswuA), x)), Fq2(SswuB, SswuB))

\* sswu has returned: line 38 is about to call iso_map on its (x, y)
SswuReturned == pc = "iso_z_pow"

\* C12: for every u, u = 0 and the u whose g(x1) is not a square included,
\* the (x, y) sswu returns satisfies y^2 = x^3 + A' x + B' of E'.
C12_SswuOnCurve ==
    SswuReturned =>
        /\ OnCurveEIso(sswu_locals.x, sswu_locals.y)
        /\ iso_locals.x = sswu_locals.x /\ iso_locals.y = sswu_locals.y

\* sswu has returned for u = 0, where tv1 + tv2 has no inverse
C12_Witness ==
    SswuReturned /\ sswu_locals.u = Fq2Zero /\ sswu_locals.e1

\* a is a square of Fq2: its norm is zero or a quadratic residue of Fq
\* (Euler's criterion in Fq), whatever Fq2::sqrt does
IsSquare(a) ==
    PowFq(AddFq(MulFq(a[1], a[1]), MulFq(a[2], a[2])), (FqModulus - 1) \div 2) \in {0, 1}

\* C13: the y2 chosen at steps 16.-18. (gx1 when it is a square, else
\* gx2 = gx1 * tv1^3) is a square, so y2.sqrt().unwrap() of line 126 does
\* not panic.
C13_Y2IsSquare ==
    /\ panic # "sswu: sqrt"
    /\ pc = "sswu_19" =>
          /\ sswu_locals.e2 = IsSquare(sswu_locals.gx1)
          /\ sswu_locals.y2 =
                 IF IsSquare(sswu_locals.gx1) THEN sswu_locals.gx1
                 ELSE Mul(sswu_locals.gx1,
                          Mul(Mul(sswu_locals.tv1, sswu_locals.tv1), sswu_locals.tv1))
          /\ IsSquare(sswu_locals.y2)
          /\ IsSome(Sqrt(sswu_locals.y2))
          /\ Square(Unwrap(Sqrt(sswu_locals.y2))) = sswu_locals.y2

\* g(x1) is not a square and is not zero: gx2 has been chosen, and the
\* square root of it has been taken
C13_Witness ==
    /\ SswuReturned /\ ~sswu_locals.e2
    /\ ~IsSquare(sswu_locals.gx1) /\ ~IsZero(sswu_locals.gx1)
    /\ sswu_locals.y2 = sswu_locals.gx2

\* the elements sswu holds when it returns, the two whose signs it compares
\* first
SswuElements ==
    { sswu_locals.u, Unwrap(Sqrt(sswu_locals.y2)), sswu_locals.y, sswu_locals.x,
      sswu_locals.x1, sswu_locals.x2, sswu_locals.gx1, sswu_locals.gx2,
      sswu_locals.tv1, sswu_locals.tv2 }

\* (c0 mod 2) OR ((c0 == 0) AND (c1 mod 2)), on the integers c0 and c1
SignOf(x) == IF x[1] % 2 = 1 \/ (x[1] = 0 /\ x[2] % 2 = 1) THEN 1 ELSE 0

\* C14: sgn0 returns 0 or 1, the value (c0 mod 2) OR ((c0 == 0) AND
\* (c1 mod 2)), and for every y other than its own negation sgn0(y) and
\* sgn0(-y) differ.
C14_Sgn0 ==
    SswuReturned =>
        \A y \in SswuElements :
            /\ sgn0(y) \in {0, 1}
            /\ sgn0(y) = SignOf(y)
            /\ y # Negate(y) => sgn0(y) # sgn0(Negate(y))

\* sgn0 has been applied to a u whose c0 is zero and whose c1 is odd, and to
\* a y that is not zero
C14_Witness ==
    /\ SswuReturned /\ sswu_locals.u[1] = 0 /\ sswu_locals.u[2] % 2 = 1
    /\ sgn0(sswu_locals.u) = 1
    /\ sswu_locals.y # Negate(sswu_locals.y)

----------------------------------------------------------------------------
(* The vector of this instance for msg = "" and dst = "", by the procedure *)
(* of the doc comment at lines 8-19.                                       *)

VectorQ0 == G2Affine(Fq2(61088, 39782), Fq2(48994, 36764))

VectorQ1 == G2Affine(Fq2(54261, 33947), Fq2(47976, 49419))

\* P = clear_cofactor(Q0 + Q1) = h_eff (Q0 + Q1)
VectorP == G2Affine(Fq2(29225, 36878), Fq2(36067, 22415))

\* C16: for the vector's message and tag map_to_curve_g2(u0) and
\* map_to_curve_g2(u1) are the vector's Q0 and Q1, and hash_to_curve_g2
\* returns the vector's P.
C16_KnownVector ==
    (pc = "returned" /\ msg = << >> /\ dst = << >>) =>
        /\ q0 = Some(VectorQ0)
        /\ q1 = Some(VectorQ1)
        /\ result = Some(VectorP)

\* the part of the vector before the cofactor is cleared
VectorMappedPoints ==
    (pc = "returned" /\ msg = << >> /\ dst = << >>) =>
        /\ q0 = Some(VectorQ0)
        /\ q1 = Some(VectorQ1)
        /\ r = result
        /\ VectorP = G2Mul(G2Add(VectorQ0, VectorQ1), DecimalValue(HEffDigits))
        /\ OnCurveE(VectorP)
        /\ G2Mul(VectorP, FrModulus) = G2Zero

----------------------------------------------------------------------------
(* Properties of iso_map.                                                  *)

\* iso_map has returned (x_jac, y_jac, z_jac): line 39 is about to call
\* from_coordinates_unchecked on them
IsoMapReturned == pc = "from_coordinates" /\ DOMAIN iso_locals # {}

\* (X / Z^2, Y / Z^3) for Z # 0
JacobianToAffine(x, y, z) ==
    G2Affine(Mul(x, Unwrap(Inverse(Square(z)))),
             Mul(y, Unwrap(Inverse(Mul(Square(z), z)))))

\* C17: for every (x, y) on E' for which iso_map's Z is not zero, the
\* Jacobian output (X, Y, Z) denotes the affine point (X / Z^2, Y / Z^3),
\* which satisfies y^2 = x^3 + 4 (1 + i) of E.
C17_IsoMapOnCurve ==
    (/\ IsoMapReturned
     /\ OnCurveEIso(iso_locals.x, iso_locals.y)
     /\ ~IsZero(iso_locals.z_jac)) =>
        /\ from_locals = [x |-> iso_locals.x_jac, y |-> iso_locals.y_jac,
                          z |-> iso_locals.z_jac]
        /\ OnCurveE(JacobianToAffine(iso_locals.x_jac, iso_locals.y_jac,
                                     iso_locals.z_jac))
        /\ ~JacobianToAffine(iso_locals.x_jac, iso_locals.y_jac, iso_locals.z_jac).inf

\* iso_map has returned a Z that is neither zero nor one for a point of E'
\* whose coordinates are not zero
C17_Witness ==
    /\ IsoMapReturned
    /\ OnCurveEIso(iso_locals.x, iso_locals.y)
    /\ ~IsZero(iso_locals.x) /\ ~IsZero(iso_locals.y)
    /\ ~IsZero(iso_locals.z_jac) /\ iso_locals.z_jac # Fq2One

----------------------------------------------------------------------------
(* The number of field operations of map_to_curve_g2.                      *)

\* from_coordinates_unchecked has returned to map_to_curve_g2, which has
\* returned its point
FromCoordinatesReturned == pc \in {"map_q1", "add"}

\* the operations of sswu: lines 56-126 make 22, line 131 one more
SswuOps == IF sswu_locals.e3 THEN 22 ELSE 23

\* the operations made before from_coordinates_unchecked is entered: those
\* of sswu and iso_map, or none when the function is called on its own
EntryOps == IF DOMAIN iso_locals = {} THEN 0 ELSE SswuOps + 58

\* C19 as stated: sswu makes the same number of field operations for every
\* u, iso_map for every (x, y, z) and from_coordinates_unchecked for every
\* (X, Y, Z).
C19_InputIndependentCount ==
    /\ SswuReturned => ops = 22
    /\ IsoMapReturned => ops - SswuOps = 58
    /\ FromCoordinatesReturned => ops - EntryOps = 5

\* C19, amended: every call ends, without a panic, after at most 86 field
\* operations; the loops of iso_map make 3 and 7 trips and the loop of
\* horner table length - 1 trips, whatever the data; iso_map makes 58
\* operations for every input; sswu makes 22 operations when sgn0(u) =
\* sgn0(y) and 23 when it negates y; from_coordinates_unchecked makes 5
\* operations when Z # 0 and none when Z = 0.
C19_BoundedCount ==
    /\ panic = "none" /\ pc # "panicked"
    /\ ops <= 86
    /\ SswuReturned => ops = SswuOps
    /\ pc = "iso_loop_1" =>
          iso_locals.i \in 0 .. 3 /\ ops = SswuOps + 4 + iso_locals.i
    /\ pc = "iso_loop_2" =>
          iso_locals.i \in 0 .. 7 /\ ops = SswuOps + 4 + 3 + 1 + iso_locals.i
    /\ pc \in {"iso_x_den", "iso_y_num", "iso_y_den", "iso_jac"} =>
          /\ horner_trips(K1, iso_locals.z_pow_2i) = Len(K1) - 1
          /\ horner_trips(K2, iso_locals.z_pow_2i) = Len(K2) - 1
          /\ horner_trips(K3, iso_locals.z_pow_2i) = Len(K3) - 1
          /\ horner_trips(K4, iso_locals.z_pow_2i) = Len(K4) - 1
    /\ pc = "iso_x_den" => ops = SswuOps + 15 + 3 * (Len(K1) - 1)
    /\ pc = "iso_y_num" =>
          ops = SswuOps + 15 + 3 * (Len(K1) - 1) + 3 * (Len(K2) - 1) + 1
    /\ pc = "iso_y_den" =>
          ops = SswuOps + 15 + 3 * (Len(K1) - 1) + 3 * (Len(K2) - 1) + 1
                    + 3 * (Len(K3) - 1) + 1
    /\ IsoMapReturned => ops = SswuOps + 58
    /\ pc \in {"from_write", "from_decode"} =>
          ~IsZero(from_locals.z) /\ ops = EntryOps + 5
    /\ FromCoordinatesReturned =>
          ops = EntryOps + (IF IsZero(from_locals.z) THEN 0 ELSE 5)

\* map_to_curve_g2 has returned for a u whose y sswu negated, after 23 + 58
\* + 5 operations
C19_Witness ==
    /\ FromCoordinatesReturned /\ DOMAIN iso_locals # {}
    /\ ~sswu_locals.e3 /\ ops = 86

\* from_coordinates_unchecked has returned the identity for Z = 0 without a
\* field operation
C19_WitnessZero ==
    FromCoordinatesReturned /\ IsZero(from_locals.z) /\ ops = 0 /\ q1 = Some(G2Zero)

----------------------------------------------------------------------------
(* The sign of the y sswu returns.                                         *)

\* the y of line 126, before the sign is fixed
SswuRoot == Unwrap(Sqrt(sswu_locals.y2))

\* C20: sswu negates y exactly when sgn0(u) # sgn0(y), so that the y it
\* returns has the sign of u: sgn0(y) = sgn0(u).
C20_SignOfY ==
    SswuReturned =>
        /\ sswu_locals.e3 = (SignOf(sswu_locals.u) = SignOf(SswuRoot))
        /\ sswu_locals.y =
               IF SignOf(sswu_locals.u) # SignOf(SswuRoot)
               THEN Negate(SswuRoot) ELSE SswuRoot
        /\ SignOf(sswu_locals.y) = SignOf(sswu_locals.u)
        /\ sgn0(sswu_locals.y) = sgn0(sswu_locals.u)
        /\ iso_locals.y = sswu_locals.y

\* sswu has negated a square root whose sign was not that of u
C20_Witness ==
    /\ SswuReturned /\ ~sswu_locals.e3
    /\ sswu_locals.y = Negate(SswuRoot) /\ sswu_locals.y # SswuRoot
    /\ SignOf(SswuRoot) # SignOf(sswu_locals.u)

----------------------------------------------------------------------------
(* The exceptional case of sswu.                                           *)

\* the constants of E' and of the map, as integers of Fq2
CurveA == Fq2(0, SswuA)

CurveB == Fq2(SswuB, SswuB)

CurveZ == Negate(Fq2(SswuZ0, SswuZ1))

\* a / b for b # 0
Div(a_, b_) == Mul(a_, Unwrap(Inverse(b_)))

\* tv1 + tv2 of step 3; tv1 and tv2 keep their values until step 14
SswuSum == Add(sswu_locals.tv1, sswu_locals.tv2)

\* C21: inv0 returns zero, and does not fail, when tv1 + tv2 = 0; e1 is true
\* exactly when tv1 + tv2 = 0; when e1 holds x1 becomes c2 c1 = B / (Z A),
\* otherwise x1 = c1 (1 + 1 / (tv1 + tv2)).
C21_ExceptionalCase ==
    /\ panic # "sswu: inverse"
    /\ pc \in {"sswu_8", "sswu_13"} =>
          /\ inv0(SswuSum) = IF IsZero(SswuSum) THEN Fq2Zero ELSE Div(Fq2One, SswuSum)
          /\ IsZero(SswuSum) => inv0(SswuSum) = Fq2Zero
          /\ ~IsZero(SswuSum) => Mul(inv0(SswuSum), SswuSum) = Fq2One
          /\ sswu_locals.e1 = IsZero(SswuSum)
    /\ pc = "sswu_8" =>
          sswu_locals.x1 = IF IsZero(SswuSum) THEN sswu_locals.c2
                           ELSE Add(Fq2One, Div(Fq2One, SswuSum))
    /\ pc = "sswu_13" =>
          sswu_locals.x1 =
              IF IsZero(SswuSum)
              THEN Div(CurveB, Mul(CurveZ, CurveA))
              ELSE Mul(Negate(Div(CurveB, CurveA)), Add(Fq2One, Div(Fq2One, SswuSum)))

\* step 8 has run in the exceptional case: tv1 + tv2 = 0, x1 = B / (Z A)
C21_Witness ==
    /\ pc = "sswu_13" /\ IsZero(SswuSum) /\ sswu_locals.e1
    /\ sswu_locals.x1 = Div(CurveB, Mul(CurveZ, CurveA))

----------------------------------------------------------------------------
(* Properties of iso_map on any (x, y, z).                                 *)

\* a * a * ... * a, n factors, one multiplication after the other (the
\* shorter product is evaluated before it is multiplied)
RECURSIVE Power(_, _)
Power(a_, n) ==
    IF n = 0 THEN Fq2One
    ELSE LET shorter == Power(a_, n - 1)
         IN  IF Len(shorter) # 2 THEN shorter ELSE Mul(a_, shorter)

\* the entries 1 .. n of z_pow_2i hold Z^2, Z^4, ..., Z^(2 n), the entries
\* after them still hold the Z they were initialised with
LadderUpTo(n) ==
    \A k \in 1 .. NumZPowers :
        iso_locals.z_pow_2i[k] =
            IF k <= n THEN Power(iso_locals.z, 2 * k) ELSE iso_locals.z

\* the ladder is complete: lines 252-278 run, or iso_map has returned
LadderDone ==
    /\ pc \in {"iso_x_den", "iso_y_num", "iso_y_den", "iso_jac", "from_coordinates"}
    /\ DOMAIN iso_locals # {}

\* C22: after the chain of squarings and multiplications z_pow_2i[i] is
\* Z^(2 (i + 1)) for every index i in 0..14 and every Z; an entry is
\* written before it is read: when a loop reads entry 3 + i or 7 + i (and
\* entry 0), the entries up to it hold their powers already.
C22_ZPowerLadder ==
    /\ pc = "iso_loop_1" => iso_locals.i \in 0 .. 3 /\ LadderUpTo(4 + iso_locals.i)
    /\ pc = "iso_loop_2" => iso_locals.i \in 0 .. 7 /\ LadderUpTo(8 + iso_locals.i)
    /\ LadderDone =>
          /\ Len(iso_locals.z_pow_2i) = 15
          /\ \A k \in 0 .. 14 : iso_locals.z_pow_2i[k + 1] = Power(iso_locals.z, 2 * (k + 1))

\* the ladder is complete for a Z whose fifteen even powers are all
\* different from one another and from Z
C22_Witness ==
    /\ LadderDone
    /\ \A k \in 1 .. 15 : iso_locals.z_pow_2i[k] # iso_locals.z
    /\ \A k \in 1 .. 15 : \A l \in 1 .. 15 :
          k # l => iso_locals.z_pow_2i[k] # iso_locals.z_pow_2i[l]

\* the element of Fq2 a table entry denotes
Coefficient(entry) == Fq2(ReprValue(entry[1]), ReprValue(entry[2]))

\* the sum over j = from .. n of K[j] x^(j - 1) Z^(2 (n - j)), K indexed
\* from 1, n = Len(K)
RECURSIVE HomogenisedSum(_, _, _, _)
HomogenisedSum(K, x, z, from) ==
    IF from > Len(K) THEN Fq2Zero
    ELSE LET rest == HomogenisedSum(K, x, z, from + 1)
         IN  IF Len(rest) # 2 THEN rest
             ELSE Add(Mul(Coefficient(K[from]),
                          Mul(Power(x, from - 1), Power(z, 2 * (Len(K) - from)))),
                      rest)

\* the value of K at (x, Z), homogenised to degree Len(K) - 1
Homogenised(K) == HomogenisedSum(K, iso_locals.x, iso_locals.z, 1)

\* C23: for K = K1, K2, K3, K4 of length n horner returns the sum over
\* j = 0..n-1 of K[j] x^j Z^(2 (n - 1 - j)): the leading coefficient
\* unscaled, K[n-1-t] multiplied by Z^(2 t); the zip with the 15 powers of Z
\* does not cut a table short.
C23_Horner ==
    LadderDone =>
        /\ \A K \in {K1, K2, K3, K4} :
              /\ horner(K, iso_locals.z_pow_2i, iso_locals.x) = Some(Homogenised(K))
              /\ horner_trips(K, iso_locals.z_pow_2i) = Len(K) - 1
              /\ Len(K) - 1 <= Len(iso_locals.z_pow_2i)
        /\ iso_locals.x_num = Homogenised(K1)

\* horner has returned x_num for an x and a Z that are neither zero nor
\* one, and no term of the sum vanishes
C23_Witness ==
    /\ pc = "iso_x_den" /\ DOMAIN iso_locals # {}
    /\ iso_locals.x \notin {Fq2Zero, Fq2One} /\ iso_locals.z \notin {Fq2Zero, Fq2One}
    /\ iso_locals.x_num = Homogenised(K1)
    /\ iso_locals.x_num # Coefficient(K1[Len(K1)])
    /\ ~IsZero(iso_locals.x_num)

\* lines 254-265 have run: x_den, y_num and y_den are bound
Combined == pc \in {"iso_jac", "from_coordinates"} /\ DOMAIN iso_locals # {}

\* C24 as stated: x_den' = Z^2 x_den, y_num' = y y_num and y_den' = Z y_den
\* for every (x, y, Z), with x_den, y_num, y_den the values of K2, K3, K4.
C24_CombineByZ ==
    Combined =>
        /\ iso_locals.x_den = Mul(Power(iso_locals.z, 2), Homogenised(K2))
        /\ iso_locals.y_num = Mul(iso_locals.y, Homogenised(K3))
        /\ iso_locals.y_den = Mul(iso_locals.z, Homogenised(K4))

\* C24, amended: x_den' = Z^2 x_den, y_num' = y y_num and y_den' =
\* Z^3 y_den (z_pow_2i[0] * z * horner(K4)) for every (x, y, Z); y_den' is
\* Z y_den exactly when Z^2 = 1 or y_den = 0.
C24_CombineByZCubed ==
    Combined =>
        /\ iso_locals.x_den = Mul(Power(iso_locals.z, 2), Homogenised(K2))
        /\ iso_locals.y_num = Mul(iso_locals.y, Homogenised(K3))
        /\ iso_locals.y_den = Mul(Power(iso_locals.z, 3), Homogenised(K4))
        /\ (iso_locals.y_den = Mul(iso_locals.z, Homogenised(K4)))
              <=> (\/ Power(iso_locals.z, 2) = Fq2One
                   \/ IsZero(iso_locals.z)
                   \/ IsZero(Homogenised(K4)))

\* the three products are bound for a Z whose square is not one, none of
\* them zero
C24_Witness ==
    /\ Combined
    /\ Power(iso_locals.z, 2) # Fq2One
    /\ ~IsZero(iso_locals.x_den) /\ ~IsZero(iso_locals.y_num) /\ ~IsZero(iso_locals.y_den)
    /\ iso_locals.y_den # Mul(iso_locals.z, Homogenised(K4))

\* from_coordinates_unchecked has computed the affine coordinates of
\* iso_map's output
AffineOfIsoMap == pc \in {"from_write", "from_decode"} /\ DOMAIN iso_locals # {}

\* C25: iso_map returns Z_out = x_den' y_den', X_out = x_num y_den' Z_out
\* and Y_out = y_num' x_den' Z_out^2, so that whenever Z_out # 0 the affine
\* conversion of from_coordinates_unchecked, (X / Z^2, Y / Z^3), is
\* (x_num / x_den', y_num' / y_den').
C25_OutputScaling ==
    /\ IsoMapReturned =>
          /\ from_locals.z = Mul(iso_locals.x_den, iso_locals.y_den)
          /\ from_locals.x = Mul(Mul(iso_locals.x_num, iso_locals.y_den), from_locals.z)
          /\ from_locals.y = Mul(Mul(iso_locals.y_num, iso_locals.x_den),
                                 Mul(from_locals.z, from_locals.z))
    /\ AffineOfIsoMap =>
          /\ ~IsZero(from_locals.z)
          /\ ~IsZero(iso_locals.x_den) /\ ~IsZero(iso_locals.y_den)
          /\ from_locals.p_x = Div(iso_locals.x_num, iso_locals.x_den)
          /\ from_locals.p_y = Div(iso_locals.y_num, iso_locals.y_den)
          /\ from_locals.p_x = Div(from_locals.x, Power(from_locals.z, 2))
          /\ from_locals.p_y = Div(from_locals.y, Power(from_locals.z, 3))
    /\ (pc = "add" /\ DOMAIN iso_locals # {} /\ ~IsZero(from_locals.z)) =>
          q1 = Some(G2Affine(Div(iso_locals.x_num, iso_locals.x_den),
                             Div(iso_locals.y_num, iso_locals.y_den)))

\* the affine point of an output whose Z is neither zero nor one has been
\* returned, its coordinates not zero
C25_Witness ==
    /\ pc = "add" /\ DOMAIN iso_locals # {}
    /\ from_locals.z \notin {Fq2Zero, Fq2One}
    /\ ~IsZero(from_locals.p_x) /\ ~IsZero(from_locals.p_y)
    /\ q1 = Some(G2Affine(from_locals.p_x, from_locals.p_y))

----------------------------------------------------------------------------
(* Properties of from_coordinates_unchecked.                               *)

\* from_coordinates_unchecked was given Z = 0 and has returned
ReturnedForZeroZ == pc = "add" /\ IsZero(from_locals.z)

\* C26: for every (X, Y) with Z = 0 from_coordinates_unchecked returns the
\* identity of the group, without a field inversion and without encoding
\* into the buffer; when iso_map returns Z_out = 0, as for an x that is a
\* root of a denominator, map_to_curve_g2 returns the identity and does not
\* fail.
C26_PointAtInfinity ==
    /\ panic = "none" /\ pc # "panicked"
    /\ pc \in {"from_write", "from_decode"} => ~IsZero(from_locals.z)
    /\ (pc = "add" /\ ~IsZero(from_locals.z)) => q1 # Some(G2Zero)
    /\ ReturnedForZeroZ =>
          /\ q1 = Some(G2Zero)
          /\ DOMAIN from_locals = {"x", "y", "z"}
          /\ ops = IF DOMAIN iso_locals = {} THEN 0 ELSE 58
    /\ (pc = "add" /\ DOMAIN iso_locals # {}
           /\ (IsZero(iso_locals.x_den) \/ IsZero(iso_locals.y_den))) =>
          IsZero(from_locals.z) /\ q1 = Some(G2Zero)

\* iso_map was given Z = 1 and the root of its denominators, and
\* map_to_curve_g2's last two calls have returned the identity
C26_Witness ==
    /\ ReturnedForZeroZ /\ DOMAIN iso_locals # {}
    /\ iso_locals.z = Fq2One /\ iso_locals.x = DenominatorRoot
    /\ IsZero(Homogenised(K2)) /\ IsZero(Homogenised(K4))
    /\ q1 = Some(G2Zero)

\* from_coordinates_unchecked was given Z = 0 with X and Y not zero
C26_WitnessDirect ==
    /\ ReturnedForZeroZ /\ DOMAIN iso_locals = {}
    /\ ~IsZero(from_locals.x) /\ ~IsZero(from_locals.y)
    /\ q1 = Some(G2Zero)

\* the bytes of one field element in the buffer
FieldBytes == ReprLimbs * LimbBytes

\* the big-endian bytes of the integer of a field element
BigEndian(c) == ToBeBytes(c, FieldBytes)

\* the cursor after the four write loops of lines 656-675
FinalCursor ==
    write_fq(write_fq(write_fq(write_fq(
        Some(NewCursor(Zeros(UncompressedSize))),
        from_locals.p_x[2]), from_locals.p_x[1]), from_locals.p_y[2]), from_locals.p_y[1])

\* C27: for every (X, Y, Z) with Z # 0 from_coordinates_unchecked computes
\* x = X Z^-2 and y = Y Z^-3 and writes x.c1, x.c0, y.c1, y.c0 in this order
\* into the uncompressed buffer, each most significant limb first and each
\* limb big-endian, filling the buffer exactly: no write past the end, no
\* byte left unwritten.
C27_PointEncoding ==
    /\ panic # "from_coordinates_unchecked: write_all"
    /\ pc = "from_write" =>
          /\ from_locals.p_x = Div(from_locals.x, Power(from_locals.z, 2))
          /\ from_locals.p_y = Div(from_locals.y, Power(from_locals.z, 3))
    /\ pc = "from_decode" =>
          /\ from_locals.uncompress_point =
                 BigEndian(from_locals.p_x[2]) \o BigEndian(from_locals.p_x[1])
                     \o BigEndian(from_locals.p_y[2]) \o BigEndian(from_locals.p_y[1])
          /\ Len(from_locals.uncompress_point) = 4 * FieldBytes
          /\ IsSome(FinalCursor)
          /\ Unwrap(FinalCursor).pos = Len(Unwrap(FinalCursor).buf)
          /\ Unwrap(FinalCursor).pos = UncompressedSize

\* the buffer has been written for a Z that is neither zero nor one and
\* four coordinates that differ and take more than one byte each
C27_Witness ==
    /\ pc = "from_decode" /\ from_locals.z \notin {Fq2Zero, Fq2One}
    /\ \A c \in {from_locals.p_x[1], from_locals.p_x[2],
                 from_locals.p_y[1], from_locals.p_y[2]} : c > U8Max
    /\ Cardinality({from_locals.p_x[1], from_locals.p_x[2],
                    from_locals.p_y[1], from_locals.p_y[2]}) = 4

\* from_coordinates_unchecked was called on its own, with Z # 0, and has
\* returned its point
ReturnedForNonZeroZ == pc = "add" /\ DOMAIN iso_locals = {} /\ ~IsZero(from_locals.z)

\* the arguments from_coordinates_unchecked was called with
Arguments == [x |-> from_locals.x, y |-> from_locals.y, z |-> from_locals.z]

\* C29: for every lambda # 0 and every (X, Y, Z) with Z # 0 the inputs
\* (lambda^2 X, lambda^3 Y, lambda Z) and (X, Y, Z) give the same point of
\* the group, the affine point (X / Z^2, Y / Z^3); (x, y, 1) gives the
\* affine point (x, y).
C29_JacobianRescaling ==
    ReturnedForNonZeroZ =>
        \A z \in Zs \ {Fq2Zero}, lambda \in Lambdas :
            from_locals.z = Mul(lambda, z) =>
                \A x \in Us :
                    from_locals.x = Mul(Square(lambda), x) =>
                        \A y \in Us :
                            Arguments = Rescaled(x, y, z, lambda) =>
                                /\ q1 = Some(G2Affine(Div(x, Power(z, 2)),
                                                      Div(y, Power(z, 3))))
                                /\ z = Fq2One => q1 = Some(G2Affine(x, y))

\* (x, y, i) rescaled by 2 + i has given the point (x, y, i) gives:
\* (-x, i y), different from (x, y)
C29_Witness ==
    /\ ReturnedForNonZeroZ
    /\ \E x \in Us \ {Fq2Zero}, y \in Us \ {Fq2Zero} :
          /\ Arguments = Rescaled(x, y, Fq2(0, 1), Fq2(2, 1))
          /\ from_locals.x # x /\ from_locals.y # y
          /\ q1 = Some(G2Affine(Negate(x), Mul(Fq2(0, 1), y)))
          /\ q1 # Some(G2Affine(x, y))



----------------------------------------------------------------------------
(* The exceptional case of sswu is the case u = 0.                         *)

\* Z u^2 of step 1, from u and the constant Z
ZTimesUSquared == Mul(CurveZ, Square(sswu_locals.u))

\* C30: the exceptional branch of step 7 (e1 true, x1 overwritten with c2)
\* is taken only for u = 0: tv1 + tv2 = Z u^2 (Z u^2 + 1), Z and -1 / Z are
\* not squares, so that for u # 0 the sum is not zero and the inversion of
\* step 4 succeeds.
C30_ExceptionalOnlyForZero ==
    pc \in {"sswu_8", "sswu_13"} =>
        /\ sswu_locals.z = CurveZ
        /\ ~IsSquare(sswu_locals.z)
        /\ ~IsSquare(Negate(Div(Fq2One, sswu_locals.z)))
        /\ SswuSum = Mul(ZTimesUSquared, Add(ZTimesUSquared, Fq2One))
        /\ sswu_locals.e1 <=> sswu_locals.u = Fq2Zero
        /\ sswu_locals.u # Fq2Zero =>
              /\ ~IsZero(SswuSum)
              /\ IsSome(Inverse(SswuSum))
              /\ Mul(inv0(SswuSum), SswuSum) = Fq2One

\* steps 4.-7. have run on a u # 0: e1 is false and x1 = 1 + 1 / (tv1 + tv2)
C30_Witness ==
    /\ pc = "sswu_8" /\ sswu_locals.u # Fq2Zero /\ ~sswu_locals.e1
    /\ sswu_locals.x1 = Add(Fq2One, Div(Fq2One, SswuSum))





====
